---------------------------- MODULE Spec2Model ----------------------------
(***************************************************************************)
(* A model of Syntax-Extractor: the common-base-path computation, the      *)
(* ignore matcher, the directory traversal with its tree and content       *)
(* rendering, the extractor that drives them, and the comment remover.     *)
(*                                                                         *)
(* Text is modelled as a sequence of one-character strings, so that        *)
(* splitting, joining, prefix tests and pattern matching are computed the  *)
(* way the code computes them.                                             *)
(***************************************************************************)
EXTENDS Integers, Sequences, FiniteSets, TLC

VARIABLES
    pc,              \* the entry point that ran last ("idle" before any)
    paths,           \* findCommonBasePath: its argument
    basePath,        \* findCommonBasePath: its return value
    item,            \* checkIsIgnored: [relPath, name, isDirectory]
    ignorePatterns,  \* the rule list of the operation
    ignored,         \* checkIsIgnored: its return value
    fs,              \* the file system: the kind of every path
    disk,            \* the file system: the decoded content of every file
    readdirOrder,    \* the order in which fs.readdir enumerates names
    broken,          \* the paths whose readdir / readFile throws
    uris,            \* extractCode: the Selection
    travArgs,        \* traverseDirectory: [dir, basePath]
    result,          \* traverseDirectory's result / extractCode's combinedResult
    finalContent,    \* extractCode: its return value
    clipboard,       \* what writeToClipboard received
    message,         \* the last showInfoMessage / showErrorMessage
    stripExt,        \* removeCommentsFromContent: the extension
    stripInput,      \* removeCommentsFromContent: the content it is given
    cleanedContent,  \* removeCommentsFromContent: its return value
    encoder,         \* removeComments: the encoder, [acquired, freed] counts
    totals,          \* removeComments: filesProcessed and the two totals
    written,         \* removeComments: the paths fs.writeFile was called on
    handed,          \* removeComments: the files processFile did not reject as ignored
    runs,            \* removeComments: the number of calls made
    walkOp,          \* the walk in progress: "extract", "remove" or "none"
    cursor,          \* the walk: the index of the next Selection entry
    stack,           \* the walk: the directory calls not yet returned
    entered,         \* the walk: the directory calls made, [dir, entry], in order
    handlerArgs,     \* handleRemoveComments: its arguments [uri, uris]
    proceed          \* handleRemoveComments: the answer to the prompt

pathVars == <<paths, basePath>>
ignoreVars == <<item, ignored>>
fsVars == <<fs, disk, readdirOrder, broken>>
extractVars == <<uris, travArgs, result, finalContent, clipboard, message>>
stripVars == <<stripExt, stripInput, cleanedContent>>
removeVars == <<encoder, totals, written, handed, runs>>
walkVars == <<walkOp, cursor, stack, entered>>
handlerVars == <<handlerArgs, proceed>>

vars == <<pc, pathVars, ignoreVars, ignorePatterns, fsVars, extractVars, stripVars,
          removeVars, walkVars, handlerVars>>

-----------------------------------------------------------------------------
(* Text helpers *)

SEP == "/"

\* All sequences over S of length at most n.
SeqUpTo(S, n) == UNION {[1..k -> S] : k \in 0..n}

\* s[a..b], the empty text when a > b.
Slice(s, a, b) == IF a > b THEN <<>> ELSE SubSeq(s, a, b)

\* String.prototype.startsWith at a 1-based position.
StartsWithAt(s, i, m) ==
    /\ i + Len(m) - 1 <= Len(s)
    /\ \A k \in 1..Len(m) : s[i + k - 1] = m[k]

\* String.prototype.endsWith
EndsWith(s, m) ==
    /\ Len(m) <= Len(s)
    /\ \A k \in 1..Len(m) : s[Len(s) - Len(m) + k] = m[k]

\* String.prototype.split(sep) for a one-character sep: "" splits to [""].
RECURSIVE SplitFrom(_, _, _, _)
SplitFrom(s, sep, i, cur) ==
    IF i > Len(s) THEN <<cur>>
    ELSE IF s[i] = sep THEN <<cur>> \o SplitFrom(s, sep, i + 1, <<>>)
    ELSE SplitFrom(s, sep, i + 1, Append(cur, s[i]))

Split(s, sep) == SplitFrom(s, sep, 1, <<>>)

\* Array.prototype.join(sep): [] and [""] both join to "".
RECURSIVE Join(_, _)
Join(parts, sep) ==
    IF Len(parts) = 0 THEN <<>>
    ELSE IF Len(parts) = 1 THEN parts[1]
    ELSE parts[1] \o <<sep>> \o Join(Tail(parts), sep)

\* Math.min over a non-empty set of naturals.
Min(S) == CHOOSE x \in S : \A y \in S : x <= y

IsPrefix(p, s) == Len(p) <= Len(s) /\ \A k \in 1..Len(p) : p[k] = s[k]

-----------------------------------------------------------------------------
(* core/utils.js: findCommonBasePath *)

\* The for loop of findCommonBasePath, from index i (0-based in the code,
\* 1-based here) with the parts pushed so far.
RECURSIVE CommonBaseLoopNoBreak(_, _, _, _)
CommonBaseLoopNoBreak(splitPaths, i, minLength, commonBaseParts) ==
    IF i > minLength THEN commonBaseParts
    ELSE LET currentPart == splitPaths[1][i]
         IN  IF \A k \in 1..Len(splitPaths) : splitPaths[k][i] = currentPart
             THEN CommonBaseLoopNoBreak(splitPaths, i + 1, minLength,
                                        Append(commonBaseParts, currentPart))
             ELSE CommonBaseLoopNoBreak(splitPaths, i + 1, minLength,
                                        commonBaseParts)

RECURSIVE CommonBaseLoop(_, _, _, _)
CommonBaseLoop(splitPaths, i, minLength, commonBaseParts) ==
    IF i > minLength THEN commonBaseParts
    ELSE LET currentPart == splitPaths[1][i]
         IN  IF \A k \in 1..Len(splitPaths) : splitPaths[k][i] = currentPart
             THEN CommonBaseLoop(splitPaths, i + 1, minLength,
                                 Append(commonBaseParts, currentPart))
             ELSE commonBaseParts

findCommonBasePath(ps) ==
    IF Len(ps) = 0 THEN <<>>
    ELSE LET splitPaths == [k \in 1..Len(ps) |-> Split(ps[k], SEP)]
             minLength  == Min({Len(splitPaths[k]) : k \in 1..Len(ps)})
         IN  Join(CommonBaseLoop(splitPaths, 1, minLength, <<>>), SEP)

-----------------------------------------------------------------------------
(* The glob primitive bound to minimatchFn, called with { dot: true }.      *)
(* Patterns are made of literal characters, "*", "?", "/" and the "**"     *)
(* path segment (checkIsIgnored hands over patterns without backslashes).  *)

STAR == "*"
QMARK == "?"
BACKSLASH == "\\"

\* Runs of "/" count as one separator when minimatch splits a pattern or a path.
RECURSIVE CollapseSlashes(_)
CollapseSlashes(s) ==
    IF Len(s) <= 1 THEN s
    ELSE IF s[1] = SEP /\ s[2] = SEP THEN CollapseSlashes(Tail(s))
    ELSE <<s[1]>> \o CollapseSlashes(Tail(s))

SlashSplit(s) == Split(CollapseSlashes(s), SEP)

HasMagic(p) == \E k \in 1..Len(p) : p[k] \in {STAR, QMARK}

\* One path part against one pattern part: "*" is any run of characters,
\* "?" is one character.
RECURSIVE WildMatch(_, _)
WildMatch(f, p) ==
    IF Len(p) = 0 THEN Len(f) = 0
    ELSE IF p[1] = STAR
         THEN \/ WildMatch(f, Tail(p))
              \/ Len(f) > 0 /\ WildMatch(Tail(f), p)
    ELSE IF p[1] = QMARK
         THEN Len(f) > 0 /\ WildMatch(Tail(f), Tail(p))
    ELSE Len(f) > 0 /\ f[1] = p[1] /\ WildMatch(Tail(f), Tail(p))

DotDirs == {<<".">>, <<".", ".">>}

\* A part without magic is compared as a string; a part with magic never
\* matches the empty part, and with dot:true a leading wildcard matches a
\* leading dot but not the parts "." and "..".
PartMatch(f, p) ==
    IF ~HasMagic(p) THEN f = p
    ELSE /\ Len(f) > 0
         /\ (p[1] \in {STAR, QMARK} => f \notin DotDirs)
         /\ WildMatch(f, p)

GLOBSTAR == <<STAR, STAR>>

\* Minimatch.matchOne without partial matching.
RECURSIVE MatchOne(_, _)
MatchOne(file, pattern) ==
    IF Len(pattern) = 0
    THEN \* out of pattern: fine at the end, or on the empty part a trailing
         \* slash leaves
         Len(file) = 0 \/ (Len(file) = 1 /\ file[1] = <<>>)
    ELSE IF Len(file) = 0 THEN FALSE
    ELSE IF pattern[1] = GLOBSTAR
         THEN IF Len(pattern) = 1
              THEN \A k \in 1..Len(file) : file[k] \notin DotDirs
              ELSE \E fr \in 1..Len(file) :
                     /\ \A k \in 1..(fr - 1) : file[k] \notin DotDirs
                     /\ MatchOne(Slice(file, fr, Len(file)), Tail(pattern))
    ELSE /\ PartMatch(file[1], pattern[1])
         /\ MatchOne(Tail(file), Tail(pattern))

\* minimatch(path, pattern, { dot: true }) for a pattern without braces,
\* negation or comments.
Glob(f, pattern) == MatchOne(SlashSplit(f), SlashSplit(pattern))

-----------------------------------------------------------------------------
(* core/ignoreHelper.js *)

\* itemPath.replace(/\\/g, '/')
normalizePath(itemPath) ==
    [k \in 1..Len(itemPath) |->
        IF itemPath[k] = BACKSLASH THEN SEP ELSE itemPath[k]]

\* pathForDirCheck without the trailing slash a directory gets.
PathForDirCheckNoSlash(itemRelativePath, isDirectory) ==
    normalizePath(itemRelativePath)

\* pathForDirCheck
PathForDirCheck(itemRelativePath, isDirectory) ==
    LET normalizedPath == normalizePath(itemRelativePath)
    IN  IF isDirectory /\ ~EndsWith(normalizedPath, <<SEP>>)
        THEN normalizedPath \o <<SEP>>
        ELSE normalizedPath

\* A matcher that drops the trailing slash of a directory pattern and then
\* tries it on files too.
PatternIgnoresSlashInsensitive(itemRelativePath, itemName, isDirectory, pattern) ==
    LET normalizedName    == normalizePath(itemName)
        normalizedPath    == normalizePath(itemRelativePath)
        normalizedPattern == normalizePath(pattern)
        barePattern       == IF EndsWith(normalizedPattern, <<SEP>>)
                             THEN SubSeq(normalizedPattern, 1, Len(normalizedPattern) - 1)
                             ELSE normalizedPattern
    IN  \/ Glob(normalizedName, barePattern)
        \/ Glob(normalizedPath, barePattern)

\* The callback of ignorePatterns.some(...) for one pattern.
PatternIgnores(itemRelativePath, itemName, isDirectory, pattern) ==
    LET normalizedName    == normalizePath(itemName)
        pathForDirCheck   == PathForDirCheck(itemRelativePath, isDirectory)
        normalizedPattern == normalizePath(pattern)
        isDirPattern      == EndsWith(normalizedPattern, <<SEP>>)
    IN  IF isDirPattern /\ ~isDirectory THEN FALSE
        ELSE IF Glob(normalizedName, normalizedPattern) THEN TRUE
        ELSE Glob(pathForDirCheck, normalizedPattern)

\* A matcher that lets the first pattern alone decide.
checkIsIgnoredFirstOnly(itemRelativePath, itemName, isDirectory, patterns) ==
    IF Len(patterns) = 0 THEN FALSE
    ELSE PatternIgnores(itemRelativePath, itemName, isDirectory, patterns[1])

\* checkIsIgnored answering for files alone.
checkIsIgnoredFilesOnly(itemRelativePath, itemName, isDirectory, patterns) ==
    IF Len(patterns) = 0 \/ isDirectory THEN FALSE
    ELSE \E k \in 1..Len(patterns) :
           PatternIgnores(itemRelativePath, itemName, isDirectory, patterns[k])

checkIsIgnored(itemRelativePath, itemName, isDirectory, patterns) ==
    IF Len(patterns) = 0 THEN FALSE
    ELSE \E k \in 1..Len(patterns) :
           PatternIgnores(itemRelativePath, itemName, isDirectory, patterns[k])

-----------------------------------------------------------------------------
(* Specification of findCommonBasePath: any list of paths goes in.          *)

MaxPathLen == 3
MaxPaths == 2
PathChars == {SEP, "a"}

NoItem == [relPath |-> <<>>, name |-> <<>>, isDirectory |-> FALSE]

\* An empty TraversalResult: { folderStructure: '', fileTypes, files, fileContents: '' }
\* listed is not a field of the code's object: it records the directories
\* fs.readdir was called on.
EmptyResult ==
    [folderStructure |-> <<>>, fileTypes |-> {}, files |-> {}, fileContents |-> <<>>,
     listed |-> {}]

\* The parts of the state an operation does not use.
NoFileSystem ==
    /\ fs = <<>>
    /\ disk = <<>>
    /\ readdirOrder = <<>>
    /\ broken = {}

NoExtraction ==
    /\ uris = <<>>
    /\ travArgs = <<>>
    /\ result = EmptyResult
    /\ finalContent = <<>>
    /\ clipboard = <<>>
    /\ message = "none"

\* removeCommentsFromContent has not been called.
NoStrip ==
    /\ stripExt = ""
    /\ stripInput = <<>>
    /\ cleanedContent = <<>>

\* removeComments has not been called.
NoTotals == [filesProcessed |-> 0, charactersRemoved |-> 0, tokensRemoved |-> 0]
NoRemoval ==
    /\ encoder = [acquired |-> 0, freed |-> 0]
    /\ totals = NoTotals
    /\ written = <<>>
    /\ handed = {}
    /\ runs = 0

\* No walk is in progress.
NoSteps ==
    /\ walkOp = "none"
    /\ cursor = 0
    /\ stack = <<>>
    /\ entered = <<>>

\* handleRemoveComments has not been called.
NoPrompt ==
    /\ handlerArgs = <<>>
    /\ proceed = "none"

InitPath ==
    /\ pc = "idle"
    /\ paths \in SeqUpTo(SeqUpTo(PathChars, MaxPathLen), MaxPaths)
    /\ basePath = <<>>
    /\ item = NoItem
    /\ ignorePatterns = <<>>
    /\ ignored = FALSE
    /\ NoFileSystem
    /\ NoExtraction
    /\ NoStrip
    /\ NoRemoval
    /\ NoSteps
    /\ NoPrompt

FindCommonBasePath ==
    /\ pc = "idle"
    /\ pc' = "findCommonBasePath"
    /\ basePath' = findCommonBasePath(paths)
    /\ UNCHANGED <<paths, ignoreVars, ignorePatterns, fsVars, extractVars, stripVars,
                   removeVars, walkVars,
                   handlerVars>>

NextPath == FindCommonBasePath

SpecPath == InitPath /\ [][NextPath]_vars

\* The split form of every input path.
SplitAll(ps) == [k \in 1..Len(ps) |-> Split(ps[k], SEP)]

\* All inputs agree on their first n segments.
AgreeOn(sp, n) ==
    \A k \in 1..Len(sp) : \A i \in 1..n : sp[k][i] = sp[1][i]

\* n is the length of the longest common segment prefix of the inputs.
LongestCommon(sp, n) ==
    LET minLength == Min({Len(sp[k]) : k \in 1..Len(sp)})
    IN  /\ n <= minLength
        /\ AgreeOn(sp, n)
        /\ \/ n = minLength
           \/ \E j, k \in 1..Len(sp) : sp[j][n + 1] # sp[k][n + 1]

\* C1: findCommonBasePath returns the longest common segment prefix of its
\* inputs, joined by the separator: its segments are a prefix of every
\* input's segments, and either it has as many segments as the shortest
\* input or the next segment differs between two inputs; the empty list and
\* inputs whose first segments differ give the empty string.
C1_LongestCommonPrefix ==
    pc = "findCommonBasePath" =>
        IF Len(paths) = 0 THEN basePath = <<>>
        ELSE LET sp == SplitAll(paths)
             IN  /\ \E n \in 0..Len(sp[1]) :
                       /\ LongestCommon(sp, n)
                       /\ basePath = Join(SubSeq(sp[1], 1, n), SEP)
                 /\ (\E j, k \in 1..Len(sp) : sp[j][1] # sp[k][1])
                       => basePath = <<>>

\* Two paths with a proper common prefix: the scan stops on a mismatch
\* before the shorter path ends.
C1_Witness ==
    /\ pc = "findCommonBasePath"
    /\ Len(paths) = 2
    /\ basePath # <<>>
    /\ Len(Split(basePath, SEP)) < Len(Split(paths[1], SEP))
    /\ Len(Split(basePath, SEP)) < Len(Split(paths[2], SEP))

-----------------------------------------------------------------------------
(* Specification of checkIsIgnored: an item and a rule list go in.          *)

MaxRules == 2

\* Names of files and directories.
nA  == <<"a">>
nB  == <<"b">>
nCJ == <<"c", ".", "j">>
nG  == <<".", "g">>

\* Rules: a directory pattern, a wildcard, a nested path, a dot name, a
\* directory pattern written with a backslash, a globstar and a plain name.
rDirB     == <<"b", "/">>
rStarJ    == <<"*", ".", "j">>
rPathAB   == <<"a", "/", "b">>
rDotG     == <<".", "g">>
rDirBBack == <<"b", "\\">>
rUnderA   == <<"a", "/", "*", "*">>
rDirG     == <<".", "g", "/">>

RulePool == {rDirB, rStarJ, rPathAB, rDotG, rDirBBack, rUnderA, rDirG}

\* (relative path, name) of items: top-level ones, nested ones and one whose
\* relative path is empty (the item is the base path itself).
ItemPool ==
    { <<<<>>, nB>>, <<nB, nB>>, <<nA, nA>>, <<nCJ, nCJ>>, <<nG, nG>>,
      <<nA \o <<SEP>> \o nB, nB>>, <<nA \o <<SEP>> \o nCJ, nCJ>>,
      <<nA \o <<SEP>> \o nG, nG>> }

InitIgnore ==
    /\ pc = "idle"
    /\ paths = <<>>
    /\ basePath = <<>>
    /\ \E it \in ItemPool, d \in BOOLEAN :
          item = [relPath |-> it[1], name |-> it[2], isDirectory |-> d]
    /\ ignorePatterns \in SeqUpTo(RulePool, MaxRules)
    /\ ignored = FALSE
    /\ NoFileSystem
    /\ NoExtraction
    /\ NoStrip
    /\ NoRemoval
    /\ NoSteps
    /\ NoPrompt

CheckIsIgnored ==
    /\ pc = "idle"
    /\ pc' = "checkIsIgnored"
    /\ ignored' = checkIsIgnored(item.relPath, item.name, item.isDirectory,
                                 ignorePatterns)
    /\ UNCHANGED <<pathVars, item, ignorePatterns, fsVars, extractVars, stripVars,
                   removeVars, walkVars,
                   handlerVars>>

NextIgnore == CheckIsIgnored

SpecIgnore == InitIgnore /\ [][NextIgnore]_vars

\* The rule r, compared in normalized form, matches the item: it is not a
\* directory pattern tried on a file, and the name or the relative path
\* (with a trailing "/" for a directory) matches it.
RuleMatchesItem(it, r) ==
    LET nr   == normalizePath(r)
        nrel == normalizePath(it.relPath)
        rel1 == IF it.isDirectory /\ (Len(nrel) = 0 \/ nrel[Len(nrel)] # SEP)
                THEN Append(nrel, SEP) ELSE nrel
    IN  /\ ~(nr # <<>> /\ nr[Len(nr)] = SEP /\ ~it.isDirectory)
        /\ (Glob(normalizePath(it.name), nr) \/ Glob(rel1, nr))

\* C2: checkIsIgnored returns true iff the rule list is non-empty and some
\* rule matches the item by name or by (slash-adjusted) relative path, a
\* directory pattern never matching a file; an empty list gives false.
C2_IgnoredIffSomeRuleMatches ==
    pc = "checkIsIgnored" =>
        /\ ignored = (/\ ignorePatterns # <<>>
                      /\ \E k \in 1..Len(ignorePatterns) :
                            RuleMatchesItem(item, ignorePatterns[k]))
        /\ (ignorePatterns = <<>> => ~ignored)

\* A directory ignored through its relative path with the slash added, its
\* bare name matching no rule.
C2_Witness ==
    /\ pc = "checkIsIgnored"
    /\ ignored
    /\ item.isDirectory
    /\ \A k \in 1..Len(ignorePatterns) :
          ~Glob(normalizePath(item.name), normalizePath(ignorePatterns[k]))

\* All orderings of a list of at most three rules.
Orderings(rs) ==
    {q \in [1..Len(rs) -> 1..Len(rs)] :
        \A i, j \in 1..Len(rs) : i # j => q[i] # q[j]}

Permuted(rs, q) == [k \in 1..Len(rs) |-> rs[q[k]]]

\* C3: checkIsIgnored gives the same answer for every permutation of the
\* rule list, and for the list with any of its rules repeated.
C3_OrderIndependent ==
    pc = "checkIsIgnored" =>
        /\ \A q \in Orderings(ignorePatterns) :
              checkIsIgnored(item.relPath, item.name, item.isDirectory,
                             Permuted(ignorePatterns, q)) = ignored
        /\ \A k \in 1..Len(ignorePatterns) :
              /\ checkIsIgnored(item.relPath, item.name, item.isDirectory,
                                Append(ignorePatterns, ignorePatterns[k])) = ignored
              /\ checkIsIgnored(item.relPath, item.name, item.isDirectory,
                                <<ignorePatterns[k]>> \o ignorePatterns) = ignored

\* Two different rules of which only the second matches the item.
C3_Witness ==
    /\ pc = "checkIsIgnored"
    /\ ignored
    /\ Len(ignorePatterns) = 2
    /\ ~RuleMatchesItem(item, ignorePatterns[1])
    /\ RuleMatchesItem(item, ignorePatterns[2])

IsDirPattern(r) == r # <<>> /\ r[Len(r)] = SEP

\* C4: a file is never ignored by a rule list made only of directory
\* patterns (rules ending with "/"), whatever its name and relative path.
C4_DirPatternsNeverMatchFiles ==
    (/\ pc = "checkIsIgnored"
     /\ ~item.isDirectory
     /\ \A k \in 1..Len(ignorePatterns) : IsDirPattern(ignorePatterns[k]))
        => ~ignored

\* A file named like a directory rule ("b" under the rule "b/"): the
\* directory of that name is ignored, the file is not.
C4_Witness ==
    /\ pc = "checkIsIgnored"
    /\ ~item.isDirectory
    /\ item.name = nB
    /\ ignorePatterns = <<rDirB>>
    /\ ~ignored
    /\ checkIsIgnored(item.relPath, item.name, TRUE, ignorePatterns)

-----------------------------------------------------------------------------
(* The file system under the workspace folder /w.  A path is the sequence  *)
(* of its names; PathStr gives the string the code handles.               *)

nW  == <<"w">>
nDP == <<"d", ".", "P">>

pW   == <<nW>>
pA   == <<nW, nA>>
pAB  == <<nW, nA, nB>>
pABC == <<nW, nA, nB, nCJ>>
pAD  == <<nW, nA, nDP>>
pB   == <<nW, nB>>
pC   == <<nW, nCJ>>

Slots == {pA, pAB, pABC, pAD, pB, pC}

\* What each path can be: a directory, a text file, a binary file, or absent.
SlotKinds(p) ==
    IF p = pA THEN {"dir", "absent"}
    ELSE IF p = pAB THEN {"dir", "text", "absent"}
    ELSE IF p = pABC THEN {"text", "absent"}
    ELSE IF p = pAD THEN {"bin", "text", "absent"}
    ELSE IF p = pB THEN {"dir", "text", "absent"}
    ELSE {"text", "absent"}

Parent(p) == SubSeq(p, 1, Len(p) - 1)

\* path.basename
Basename(p) == p[Len(p)]

\* Every present path has a directory as its parent.
ValidFs(f) ==
    \A p \in Slots :
        f[p] # "absent" => (Parent(p) = pW \/ f[Parent(p)] = "dir")

FileSystems == {f \in [Slots -> {"dir", "text", "bin", "absent"}] :
                   /\ \A p \in Slots : f[p] \in SlotKinds(p)
                   /\ ValidFs(f)}

Kind(p) == IF p = pW THEN "dir"
           ELSE IF p \in DOMAIN fs THEN fs[p] ELSE "absent"

\* Dirent.isDirectory() / stats.type === FileType.Directory
IsDirectory(p) == Kind(p) = "dir"

Present == {p \in (DOMAIN fs) \cup {pW} : Kind(p) # "absent"}

\* The decoded content each file has before any operation.
InitialText(p) ==
    IF p = pABC THEN <<"x", "/", "/", "c">>
    ELSE IF p = pAD THEN <<"y", "\n">>
    ELSE IF p = pAB THEN <<"z", " ">>
    ELSE IF p = pB THEN <<"[IGNORED BY PATTERN]">>
    ELSE <<"v", "\n", "\n">>

\* The disk of a file system nothing has written to yet.
DiskOf(f) ==
    [p \in DOMAIN f |-> IF f[p] \in {"text", "bin"} THEN InitialText(p) ELSE <<>>]

\* fs.readFile and buffer.toString('utf8')
FileText(p) == disk[p]

\* error.message of a failed readdir / readFile
ErrMsg == "EACCES"

\* The string of an absolute path: "/w/a/b".
PathStr(p) == Join(<<<<>>>> \o p, SEP)

\* The names of an absolute path string, "." and empty parts dropped.
PathNames(str) == SelectSeq(Split(str, SEP), LAMBDA n : n # <<>>)

\* The length of the longest common prefix of two name sequences.
RECURSIVE CommonLen(_, _)
CommonLen(a, b) ==
    IF Len(a) = 0 \/ Len(b) = 0 \/ a[1] # b[1] THEN 0
    ELSE 1 + CommonLen(Tail(a), Tail(b))

\* path.relative(from, to) for absolute paths: ".." for every name of from
\* that is left after the common prefix, then the rest of to.
PathRelative(from, to) ==
    LET f == PathNames(from)
        t == PathNames(to)
        c == CommonLen(f, t)
    IN  Join([k \in 1..(Len(f) - c) |-> <<".", ".">>] \o Slice(t, c + 1, Len(t)), SEP)

\* path.extname of a name: from its last "." on, unless that is its first
\* character or there is none.
Extname(name) ==
    LET dots == {k \in 1..Len(name) : name[k] = "."}
    IN  IF dots = {} THEN <<>>
        ELSE LET last == CHOOSE k \in dots : \A j \in dots : j <= k
             IN  IF last = 1 THEN <<>> ELSE SubSeq(name, last, Len(name))

\* String.prototype.toLowerCase
LowerChar(c) == IF c = "P" THEN "p" ELSE IF c = "J" THEN "j" ELSE c
ToLowerCase(str) == [k \in 1..Len(str) |-> LowerChar(str[k])]

Whitespace == {" ", "\n", "\t", "\r"}

\* String.prototype.trimEnd
RECURSIVE TrimEnd(_)
TrimEnd(str) ==
    IF Len(str) > 0 /\ str[Len(str)] \in Whitespace
    THEN TrimEnd(SubSeq(str, 1, Len(str) - 1))
    ELSE str

\* fs.readdir(dir): the names of the present children, in the order the file
\* system enumerates them.
Readdir(dir) ==
    SelectSeq(readdirOrder, LAMBDA n : Append(dir, n) \in Present)

\* The rank of a character in the collation localeCompare uses:
\* punctuation before letters, letters in alphabetical order.
CharRank(c) ==
    IF c = "-" THEN 1 ELSE IF c = "." THEN 2
    ELSE IF c = "a" THEN 3 ELSE IF c = "b" THEN 4 ELSE IF c = "c" THEN 5
    ELSE IF c = "d" THEN 6 ELSE IF c = "e" THEN 7 ELSE IF c = "f" THEN 8
    ELSE IF c = "g" THEN 9 ELSE IF c = "j" THEN 10
    ELSE IF c = "J" THEN 11 ELSE IF c = "p" THEN 12 ELSE IF c = "P" THEN 13
    ELSE IF c = "s" THEN 14 ELSE IF c = "w" THEN 15 ELSE 16

\* a.localeCompare(b) as -1, 0 or 1
RECURSIVE LocaleCompare(_, _)
LocaleCompare(a, b) ==
    IF Len(a) = 0 /\ Len(b) = 0 THEN 0
    ELSE IF Len(a) = 0 THEN -1
    ELSE IF Len(b) = 0 THEN 1
    ELSE IF CharRank(a[1]) < CharRank(b[1]) THEN -1
    ELSE IF CharRank(a[1]) > CharRank(b[1]) THEN 1
    ELSE LocaleCompare(Tail(a), Tail(b))

-----------------------------------------------------------------------------
(* core/fileTraversal.js *)

\* The branch glyphs of a tree line: the corner glyph of a last entry and
\* the tee glyph of an entry that has a later sibling (U+2514 and U+251C,
\* each followed by two U+2500 and a space, written here in ASCII).
LAST   == "\\-- "
BRANCH == "|-- "

\* One line of folderStructure: `${indent}${prefix}${name}` and a "/" for a
\* directory, or the error line of the catch block.  rel is not part of the
\* text: it records the relative path of the entry the line was written for.
TreeLine(kind, level, prefix, name, rel) ==
    [kind |-> kind, indent |-> level, prefix |-> prefix, name |-> name, rel |-> rel]

ErrorLine(dir) ==
    TreeLine("error", 0, "Error traversing directory: ", <<ErrMsg>>, PathStr(dir))

\* A FileBlock whose text has lost its '/' characters.
TextBlockWithoutSlashes(rel, content) ==
    <<"\n", "-">> \o rel \o <<"-", "\n">>
        \o TrimEnd(SelectSeq(content, LAMBDA c : c # "/")) \o <<"\n">>

\* The FileBlocks getFileContent returns.
TextBlock(rel, content) ==
    <<"\n", "-">> \o rel \o <<"-", "\n">> \o TrimEnd(content) \o <<"\n">>
BinaryBlock(rel) ==
    <<"\n", "-", "-", "-", " ">> \o rel \o <<" ", "[BINARY FILE]", " ", "\n">>
IgnoredBlock(rel) ==
    <<"\n", "-", "-", "-", " ">> \o rel \o <<" ", "[IGNORED BY PATTERN]", " ", "\n">>
ErrorBlock(filePath) ==
    <<"\n", "-">> \o filePath \o <<"-", "\n", "Error reading file: ", ErrMsg, "\n">>

\* getFileContent giving nothing for a file it cannot read.
getFileContentNoErrorBlock(filePath, base, patterns) ==
    LET relativeFilePath == PathRelative(base, PathStr(filePath))
        fileName         == Basename(filePath)
    IN  IF checkIsIgnored(relativeFilePath, fileName, FALSE, patterns)
        THEN IgnoredBlock(relativeFilePath)
        ELSE IF filePath \in broken \/ Kind(filePath) \notin {"text", "bin"}
        THEN <<>>
        ELSE IF Kind(filePath) # "bin"
        THEN TextBlock(relativeFilePath, FileText(filePath))
        ELSE BinaryBlock(relativeFilePath)

getFileContent(filePath, base, patterns) ==
    LET relativeFilePath == PathRelative(base, PathStr(filePath))
        fileName         == Basename(filePath)
    IN  IF checkIsIgnored(relativeFilePath, fileName, FALSE, patterns)
        THEN IgnoredBlock(relativeFilePath)
        ELSE IF filePath \in broken \/ Kind(filePath) \notin {"text", "bin"}
        THEN ErrorBlock(PathStr(filePath))
        ELSE IF Kind(filePath) # "bin"
        THEN TextBlock(relativeFilePath, FileText(filePath))
        ELSE BinaryBlock(relativeFilePath)

\* The comparator of entries.sort: directories first, then by name.
CompareEntries(dir, a, b) ==
    IF IsDirectory(Append(dir, a)) /\ ~IsDirectory(Append(dir, b)) THEN -1
    ELSE IF ~IsDirectory(Append(dir, a)) /\ IsDirectory(Append(dir, b)) THEN 1
    ELSE LocaleCompare(a, b)

\* Array.prototype.sort with that comparator (a stable insertion sort).
RECURSIVE InsertEntry(_, _, _)
InsertEntry(dir, sorted, e) ==
    IF Len(sorted) = 0 THEN <<e>>
    ELSE IF CompareEntries(dir, sorted[1], e) <= 0
         THEN <<sorted[1]>> \o InsertEntry(dir, Tail(sorted), e)
         ELSE <<e>> \o sorted

RECURSIVE SortLoop(_, _, _)
SortLoop(dir, entries, sorted) ==
    IF Len(entries) = 0 THEN sorted
    ELSE SortLoop(dir, Tail(entries), InsertEntry(dir, sorted, entries[1]))

\* The entries left in the order readdir gave them.
Unsorted(dir, entries) == entries

SortEntries(dir, entries) == SortLoop(dir, entries, <<>>)

\* mergeResults, with the two text fields appended as the callers do.
MergeInto(acc, sub) ==
    [folderStructure |-> acc.folderStructure \o sub.folderStructure,
     fileTypes       |-> acc.fileTypes \cup sub.fileTypes,
     files           |-> acc.files \cup sub.files,
     fileContents    |-> acc.fileContents \o sub.fileContents,
     listed          |-> acc.listed \cup sub.listed]

\* isLast of the loop: the index is the last of sortedEntries.
IsLastEntry(sortedEntries, i) == i = Len(sortedEntries)

RECURSIVE traverseDirectory(_, _, _, _)
RECURSIVE TraverseEntries(_, _, _, _, _, _, _)

\* The for loop of traverseDirectory from index i on, acc holding what the
\* earlier entries added.
TraverseEntries(dir, sortedEntries, i, level, base, patterns, acc) ==
    IF i > Len(sortedEntries) THEN acc
    ELSE
      LET name              == sortedEntries[i]
          entryPath         == Append(dir, name)
          entryRelativePath == PathRelative(base, PathStr(entryPath))
          prefix            == IF IsLastEntry(sortedEntries, i) THEN LAST ELSE BRANCH
      IN  IF checkIsIgnored(entryRelativePath, name, IsDirectory(entryPath), patterns)
          THEN TraverseEntries(dir, sortedEntries, i + 1, level, base, patterns, acc)
          ELSE IF IsDirectory(entryPath)
          THEN TraverseEntries(dir, sortedEntries, i + 1, level, base, patterns,
                   MergeInto(acc, traverseDirectory(entryPath, level, base, patterns)))
          ELSE LET ext == Slice(ToLowerCase(Extname(name)), 2, Len(Extname(name)))
               IN  TraverseEntries(dir, sortedEntries, i + 1, level, base, patterns,
                     [folderStructure |-> Append(acc.folderStructure,
                          TreeLine("file", level, prefix, name, entryRelativePath)),
                      fileTypes    |-> IF ext # <<>> THEN acc.fileTypes \cup {ext}
                                       ELSE acc.fileTypes,
                      files        |-> acc.files \cup {entryRelativePath},
                      fileContents |-> Append(acc.fileContents,
                                              getFileContent(entryPath, base, patterns)),
                      listed       |-> acc.listed])

traverseDirectory(dir, level, base, patterns) ==
    IF dir \in broken \/ ~IsDirectory(dir)
    THEN [EmptyResult EXCEPT !.folderStructure = <<ErrorLine(dir)>>, !.listed = {dir}]
    ELSE
      LET entries         == Readdir(dir)
          relativeDirPath == PathRelative(base, PathStr(dir))
      IN  IF relativeDirPath # <<>>
             /\ checkIsIgnored(relativeDirPath, Basename(dir), TRUE, patterns)
          THEN [EmptyResult EXCEPT !.listed = {dir}]
          ELSE
            LET own    == IF relativeDirPath # <<>>
                          THEN <<TreeLine("dir", level, LAST, Basename(dir), relativeDirPath)>>
                          ELSE <<>>
                level1 == IF relativeDirPath # <<>> THEN level + 1 ELSE level
            IN  TraverseEntries(dir, SortEntries(dir, entries), 1, level1, base, patterns,
                    [EmptyResult EXCEPT !.folderStructure = own, !.listed = {dir}])

-----------------------------------------------------------------------------
(* commands/codeExtractor.js *)

\* The tree lines extractCode writes for a directly selected file: one line
\* per part of its relative path, the last one as a leaf.
SelectedFileLines(relativeFilePath) ==
    LET pathParts == Split(relativeFilePath, SEP)
    IN  [index \in 1..Len(pathParts) |->
            IF index = Len(pathParts)
            THEN TreeLine("file", index - 1, LAST, pathParts[index],
                          Join(SubSeq(pathParts, 1, index), SEP))
            ELSE TreeLine("dir", index - 1, BRANCH, pathParts[index],
                          Join(SubSeq(pathParts, 1, index), SEP))]

\* String.prototype.includes for a one-symbol needle.
Includes(text, symbol) == \E k \in 1..Len(text) : text[k] = symbol

\* The body of the for loop for a file entry without the test for the
\* marker.
ExtractFileKeepingMarked(combined, fsPath, base, patterns) ==
    LET relativeFilePath  == PathRelative(base, PathStr(fsPath))
        fileContent       == getFileContent(fsPath, base, patterns)
        isBinaryOrIgnored == StartsWithAt(fileContent, 1, <<"\n", "-", "-", "-">>)
        ext               == ToLowerCase(Slice(Extname(Basename(fsPath)), 2,
                                               Len(Extname(Basename(fsPath)))))
    IN  [folderStructure |-> combined.folderStructure
                                \o SelectedFileLines(relativeFilePath),
         fileTypes       |-> IF isBinaryOrIgnored THEN combined.fileTypes
                             ELSE combined.fileTypes \cup {ext},
         files           |-> combined.files \cup {relativeFilePath},
         fileContents    |-> Append(combined.fileContents, fileContent),
         listed          |-> combined.listed]

\* The body of the for loop of extractCode for a file entry.
ExtractFile(combined, fsPath, base, patterns) ==
    LET relativeFilePath  == PathRelative(base, PathStr(fsPath))
        fileContent       == getFileContent(fsPath, base, patterns)
        isBinaryOrIgnored == StartsWithAt(fileContent, 1, <<"\n", "-", "-", "-">>)
        ext               == ToLowerCase(Slice(Extname(Basename(fsPath)), 2,
                                               Len(Extname(Basename(fsPath)))))
    IN  IF Includes(fileContent, "[IGNORED BY PATTERN]") THEN combined
        ELSE [folderStructure |-> combined.folderStructure
                                    \o SelectedFileLines(relativeFilePath),
              fileTypes       |-> IF isBinaryOrIgnored THEN combined.fileTypes
                                  ELSE combined.fileTypes \cup {ext},
              files           |-> combined.files \cup {relativeFilePath},
              fileContents    |-> Append(combined.fileContents, fileContent),
              listed          |-> combined.listed]

\* The for loop of extractCode from entry i on.  stat of an absent path
\* throws, which ends the loop in the catch block of extractCode.
RECURSIVE ExtractLoop(_, _, _, _, _)
ExtractLoop(selection, i, base, patterns, combined) ==
    IF i > Len(selection) THEN [threw |-> FALSE, combined |-> combined]
    ELSE
      LET fsPath       == selection[i]
          relativePath == PathRelative(base, PathStr(fsPath))
          fileName     == Basename(fsPath)
      IN  IF Kind(fsPath) = "absent" THEN [threw |-> TRUE, combined |-> combined]
          ELSE IF relativePath # <<>>
                  /\ checkIsIgnored(relativePath, fileName, IsDirectory(fsPath), patterns)
          THEN ExtractLoop(selection, i + 1, base, patterns, combined)
          ELSE IF IsDirectory(fsPath)
          THEN ExtractLoop(selection, i + 1, base, patterns,
                   MergeInto(combined, traverseDirectory(fsPath, 0, base, patterns)))
          ELSE ExtractLoop(selection, i + 1, base, patterns,
                   ExtractFile(combined, fsPath, base, patterns))

\* The order of UTF-16 code units, which Array.prototype.sort uses by default.
CodeUnit(c) ==
    IF c = "-" THEN 45 ELSE IF c = "." THEN 46 ELSE IF c = "/" THEN 47
    ELSE IF c = "J" THEN 74 ELSE IF c = "P" THEN 80
    ELSE IF c = "a" THEN 97 ELSE IF c = "b" THEN 98 ELSE IF c = "c" THEN 99
    ELSE IF c = "d" THEN 100 ELSE IF c = "e" THEN 101 ELSE IF c = "f" THEN 102
    ELSE IF c = "g" THEN 103 ELSE IF c = "j" THEN 106
    ELSE IF c = "p" THEN 112 ELSE IF c = "s" THEN 115 ELSE IF c = "w" THEN 119 ELSE 120

RECURSIVE CodeUnitLess(_, _)
CodeUnitLess(a, b) ==
    IF Len(b) = 0 THEN FALSE
    ELSE IF Len(a) = 0 THEN TRUE
    ELSE IF CodeUnit(a[1]) # CodeUnit(b[1]) THEN CodeUnit(a[1]) < CodeUnit(b[1])
    ELSE CodeUnitLess(Tail(a), Tail(b))

\* The strings in descending order.
RECURSIVE DescendingStrings(_)
DescendingStrings(S) ==
    IF S = {} THEN <<>>
    ELSE LET most == CHOOSE x \in S : \A y \in S \ {x} : CodeUnitLess(y, x)
         IN  <<most>> \o DescendingStrings(S \ {most})

\* Array.from(set).sort()
RECURSIVE SortedStrings(_)
SortedStrings(S) ==
    IF S = {} THEN <<>>
    ELSE LET least == CHOOSE x \in S : \A y \in S \ {x} : CodeUnitLess(x, y)
         IN  <<least>> \o SortedStrings(S \ {least})

\* Array.prototype.join for a separator of several symbols.
RECURSIVE JoinWith(_, _)
JoinWith(parts, sepText) ==
    IF Len(parts) = 0 THEN <<>>
    ELSE IF Len(parts) = 1 THEN parts[1]
    ELSE parts[1] \o sepText \o JoinWith(Tail(parts), sepText)

\* core/utils.js: createHeader
createHeader(fileTypes) ==
    <<"File types: ">> \o JoinWith(SortedStrings(fileTypes), <<",", " ">>)

\* The text of one tree line.
LineText(line) ==
    IF line.kind = "error" THEN <<line.prefix>> \o line.name \o <<"\n">>
    ELSE [k \in 1..(2 * line.indent) |-> " "] \o <<line.prefix>> \o line.name
         \o (IF line.kind = "dir" THEN <<"/">> ELSE <<>>) \o <<"\n">>

\* The text of a sequence of lines or of blocks.
RECURSIVE Concat(_)
Concat(texts) ==
    IF Len(texts) = 0 THEN <<>> ELSE texts[1] \o Concat(Tail(texts))

FolderStructureText(lines) == Concat([k \in 1..Len(lines) |-> LineText(lines[k])])

formatFinalContent(combinedResult, base) ==
    createHeader(combinedResult.fileTypes)
    \o <<"\n", "\n", "Folder Structure:", "\n">> \o base \o <<"\n">>
    \o FolderStructureText(combinedResult.folderStructure)
    \o <<"\n", "\n", "File Contents:", "\n">>
    \o Concat(combinedResult.fileContents)

\* What extractCode returns and leaves behind for a Selection.
extractCode(selection, patterns) ==
    IF Len(selection) = 0
    THEN [returned |-> <<>>, combined |-> EmptyResult, clipboard |-> clipboard,
          message |-> message]
    ELSE
      LET selectedPaths == [k \in 1..Len(selection) |-> PathStr(selection[k])]
          base          == findCommonBasePath(selectedPaths)
          loop          == ExtractLoop(selection, 1, base, patterns, EmptyResult)
          final         == formatFinalContent(loop.combined, base)
      IN  IF loop.threw
          THEN [returned |-> <<>>, combined |-> loop.combined, clipboard |-> clipboard,
                message |-> "error"]
          ELSE [returned |-> final, combined |-> loop.combined, clipboard |-> final,
                message |-> "info"]

-----------------------------------------------------------------------------
(* Specification of traverseDirectory: a file system, an enumeration order, *)
(* a rule list, and a call on one of its directories.                      *)

\* The orders in which readdir may enumerate the names of a directory.
NameOrders ==
    { <<nA, nB, nCJ, nDP>>, <<nDP, nCJ, nB, nA>>, <<nCJ, nA, nDP, nB>> }

\* The rule lists of a traversal.
rStarP == <<"*", ".", "P">>
TraversalRuleLists ==
    { <<>>, <<rDirB>>, <<rPathAB>>, <<rStarJ>>, <<rStarP>>, <<rUnderA>>,
      <<rDirB, rStarJ>> }

\* The paths whose readdir or readFile may fail.
Breakable == {pAB, pAD}

InitFileSystem ==
    /\ fs \in FileSystems
    /\ disk = DiskOf(fs)
    /\ readdirOrder \in NameOrders
    /\ broken \in {b \in SUBSET Breakable :
                     Cardinality(b) <= 1 /\ \A p \in b : fs[p] # "absent"}

InitTraverse ==
    /\ pc = "idle"
    /\ paths = <<>>
    /\ basePath = <<>>
    /\ item = NoItem
    /\ ignored = FALSE
    /\ ignorePatterns \in TraversalRuleLists
    /\ InitFileSystem
    /\ NoExtraction
    /\ NoStrip
    /\ NoRemoval
    /\ NoSteps
    /\ NoPrompt

\* The directory itself and the directories above it, up to /w.
SelfAndAncestors(p) == {SubSeq(p, 1, k) : k \in 1..Len(p)}

TraverseDirectory ==
    /\ pc = "idle"
    /\ \E dir \in {p \in Present : IsDirectory(p)} :
       \E base \in SelfAndAncestors(dir) :
          /\ travArgs' = [dir |-> dir, basePath |-> PathStr(base)]
          /\ result' = traverseDirectory(dir, 0, PathStr(base), ignorePatterns)
    /\ pc' = "traverseDirectory"
    /\ UNCHANGED <<pathVars, ignoreVars, ignorePatterns, fsVars,
                   uris, finalContent, clipboard, message, stripVars, removeVars, walkVars,
                   handlerVars>>

NextTraverse == TraverseDirectory

SpecTraverse == InitTraverse /\ [][NextTraverse]_vars

-----------------------------------------------------------------------------
(* Properties of a traversal. *)

\* rel is the path relD or a path below it.
Under(relD, rel) == rel = relD \/ IsPrefix(relD \o <<SEP>>, rel)

\* p is a path strictly below the directory d.
Below(d, p) == Len(p) > Len(d) /\ SubSeq(p, 1, Len(d)) = d

\* Some rule of the list matches the item.
IgnoredByRules(it, rules) ==
    \E k \in 1..Len(rules) : RuleMatchesItem(it, rules[k])

\* The FileBlock is the one of the file with this relative and absolute path.
IsBlockFor(block, rel, abs) ==
    \/ IsPrefix(<<"\n", "-">> \o rel \o <<"-", "\n">>, block)
    \/ IsPrefix(<<"\n", "-", "-", "-", " ">> \o rel \o <<" ">>, block)
    \/ IsPrefix(<<"\n", "-">> \o abs \o <<"-", "\n">>, block)

\* The extension a file contributes to the set of file types.
TypeOf(name) == ToLowerCase(Slice(Extname(name), 2, Len(Extname(name))))

\* The present directories strictly below the traversed one that the rules
\* ignore.
IgnoredDirsBelow ==
    {D \in Present :
        /\ IsDirectory(D)
        /\ Below(travArgs.dir, D)
        /\ IgnoredByRules([relPath |-> PathRelative(travArgs.basePath, PathStr(D)),
                           name |-> Basename(D), isDirectory |-> TRUE],
                          ignorePatterns)}

\* C5: a directory below the traversed one that matches an ignore rule is
\* excluded as a whole: no tree line, no path in files, no FileBlock and no
\* extension comes from it or from anything below it, and neither it nor any
\* directory below it is listed.
C5_IgnoredDirectoryExcluded ==
    pc = "traverseDirectory" =>
        \A D \in IgnoredDirsBelow :
            LET relD == PathRelative(travArgs.basePath, PathStr(D))
            IN  /\ \A k \in 1..Len(result.folderStructure) :
                      ~Under(relD, result.folderStructure[k].rel)
                /\ \A f \in result.files : ~Under(relD, f)
                /\ \A k \in 1..Len(result.fileContents) :
                   \A p \in Present :
                      Below(D, p) =>
                          ~IsBlockFor(result.fileContents[k],
                                      PathRelative(travArgs.basePath, PathStr(p)),
                                      PathStr(p))
                /\ \A e \in result.fileTypes :
                      \E p \in Present :
                          /\ ~IsDirectory(p) /\ ~Below(D, p)
                          /\ PathRelative(travArgs.basePath, PathStr(p)) \in result.files
                          /\ TypeOf(Basename(p)) = e
                /\ \A d \in result.listed : d # D /\ ~Below(D, d)

\* The ignored directory /w/a/b holds a file, and the traversal of /w/a
\* reports another file next to it.
C5_Witness ==
    /\ pc = "traverseDirectory"
    /\ travArgs.dir = pA
    /\ pAB \in IgnoredDirsBelow
    /\ Kind(pABC) = "text"
    /\ result.files # {}

\* The relative path of the parent of a tree line's item.
ParentRel(rel) ==
    LET parts == Split(rel, SEP) IN Join(SubSeq(parts, 1, Len(parts) - 1), SEP)

\* Lines k and m of the tree are children of the same directory.
Siblings(lines, k, m) ==
    /\ lines[k].kind # "error" /\ lines[m].kind # "error"
    /\ lines[k].indent = lines[m].indent
    /\ ParentRel(lines[k].rel) = ParentRel(lines[m].rel)

\* C6: among the children of a directory that survive filtering, exactly the
\* last one carries the last-child glyph and every other one the non-last
\* glyph.
C6_LastSurvivingChildGlyph ==
    pc = "traverseDirectory" =>
        LET lines == result.folderStructure
        IN  \A k \in 1..Len(lines) :
                lines[k].kind # "error" =>
                    (lines[k].prefix = LAST
                        <=> ~\E m \in (k + 1)..Len(lines) : Siblings(lines, k, m))

\* The file lines of a tree, in order.
FileLines(lines) == SelectSeq(lines, LAMBDA l : l.kind = "file")

\* C7: the children of every directory appear with all subdirectories before
\* all files and in ascending name order within each group, whatever order
\* the listing enumerates them in; the FileBlocks follow the order of the
\* file lines; the sorted listing of a directory is the same for every
\* permutation of the enumeration.
C7_VisitOrder ==
    pc = "traverseDirectory" =>
        LET lines == result.folderStructure
            fl    == FileLines(lines)
        IN  /\ \A k, m \in 1..Len(lines) :
                  (k < m /\ Siblings(lines, k, m)) =>
                      /\ ~(lines[k].kind = "file" /\ lines[m].kind = "dir")
                      /\ lines[k].kind = lines[m].kind
                            => LocaleCompare(lines[k].name, lines[m].name) < 0
            /\ Len(result.fileContents) = Len(fl)
            /\ \A k \in 1..Len(fl) :
                  IsBlockFor(result.fileContents[k], fl[k].rel,
                             travArgs.basePath \o <<SEP>> \o fl[k].rel)
            /\ \A d \in result.listed :
               \A q \in Orderings(readdirOrder) :
                  LET other == SelectSeq(Permuted(readdirOrder, q),
                                         LAMBDA n : Append(d, n) \in Present)
                  IN  d \notin broken
                        => SortEntries(d, other) = SortEntries(d, Readdir(d))

\* /w is listed as c.j, a, b and reported as a/, b, c.j, with the file of
\* a/ reported before b.
C7_Witness ==
    /\ pc = "traverseDirectory"
    /\ readdirOrder = <<nCJ, nA, nDP, nB>>
    /\ travArgs.dir = pW
    /\ ignorePatterns = <<>>
    /\ broken = {}
    /\ Kind(pA) = "dir" /\ Kind(pAD) = "text" /\ Kind(pB) = "text" /\ Kind(pC) = "text"
    /\ Len(result.folderStructure) >= 4
    /\ result.folderStructure[1].name = nA
    /\ result.folderStructure[Len(result.folderStructure)].name = nCJ

-----------------------------------------------------------------------------
(* Specification of extractCode: a file system, a rule list and a Selection. *)

MaxSelection == 2

\* A rule that is a plain name.
rNameB == <<"b">>

ExtractRuleLists ==
    { <<>>, <<rDirB>>, <<rPathAB>>, <<rStarJ>>, <<rStarP>>, <<rNameB>> }

InitExtract ==
    /\ pc = "idle"
    /\ paths = <<>>
    /\ basePath = <<>>
    /\ item = NoItem
    /\ ignored = FALSE
    /\ ignorePatterns \in ExtractRuleLists
    /\ fs \in {f \in FileSystems : f[pC] = "absent"}
    /\ disk = DiskOf(fs)
    /\ readdirOrder = <<nCJ, nA, nDP, nB>>
    /\ broken \in {b \in SUBSET {pAD} : \A p \in b : fs[p] # "absent"}
    /\ NoExtraction
    /\ NoStrip
    /\ NoRemoval
    /\ NoSteps
    /\ NoPrompt

\* The paths a Selection can name: a path that is gone by the time the
\* command runs makes stat fail.
Selectable == {pA, pAB, pABC, pAD, pB}

ExtractCode ==
    /\ pc = "idle"
    /\ \E selection \in SeqUpTo(Selectable, MaxSelection) :
          \E out \in {extractCode(selection, ignorePatterns)} :
              /\ uris' = selection
              /\ basePath' = findCommonBasePath(
                                [k \in 1..Len(selection) |-> PathStr(selection[k])])
              /\ result' = out.combined
              /\ finalContent' = out.returned
              /\ clipboard' = out.clipboard
              /\ message' = out.message
    /\ pc' = "extractCode"
    /\ UNCHANGED <<paths, ignoreVars, ignorePatterns, fsVars, travArgs, stripVars,
                   removeVars, walkVars,
                   handlerVars>>

NextExtract == ExtractCode

SpecExtract == InitExtract /\ [][NextExtract]_vars

-----------------------------------------------------------------------------
(* Properties of an extraction. *)

\* The relative path extractCode and traverseDirectory give a path.
RelOf(p) == PathRelative(basePath, PathStr(p))

\* The files the result reports, as paths of the file system.
Reported == {p \in Present : ~IsDirectory(p) /\ RelOf(p) \in result.files}

\* C8: a file classified as binary adds no extension to the file types, its
\* bytes are in no FileBlock, and its FileBlocks are the marker block of its
\* relative path.
C8_BinaryOnlyAsMarker ==
    pc = "extractCode" =>
        \A p \in Reported :
            (Kind(p) = "bin" /\ p \notin broken) =>
                /\ TypeOf(Basename(p)) \in result.fileTypes
                      => \E q \in Reported :
                            /\ Kind(q) # "bin"
                            /\ TypeOf(Basename(q)) = TypeOf(Basename(p))
                /\ \E k \in 1..Len(result.fileContents) :
                      result.fileContents[k] = BinaryBlock(RelOf(p))
                /\ \A k \in 1..Len(result.fileContents) :
                      IsBlockFor(result.fileContents[k], RelOf(p), PathStr(p))
                          => result.fileContents[k] = BinaryBlock(RelOf(p))

\* The entry u of the Selection is ignored by the rules.
SelectionIgnored(u) ==
    /\ u \in Present
    /\ IgnoredByRules([relPath |-> RelOf(u), name |-> Basename(u),
                       isDirectory |-> IsDirectory(u)], ignorePatterns)

\* p is an entry of the Selection below u, or lies below such an entry.
SelectedBelow(u, p) ==
    \E m \in 1..Len(uris) :
        /\ Below(u, uris[m])
        /\ (p = uris[m] \/ Below(uris[m], p))

\* What an ignored entry u could contribute: itself and what lies below it,
\* but for what the Selection names again below u.
ContributionsOf(u) ==
    {p \in Present : (p = u \/ Below(u, p)) /\ ~SelectedBelow(u, p)}

\* C9: a Selection entry that an ignore rule matches by name or by relative
\* path contributes no path to files, no tree line, no FileBlock and no
\* extension, whatever the size of the Selection.
C9_IgnoredSelectionContributesNothing ==
    pc = "extractCode" =>
        \A n \in 1..Len(uris) :
            SelectionIgnored(uris[n]) =>
                /\ \A p \in ContributionsOf(uris[n]) :
                      /\ RelOf(p) \notin result.files
                      /\ \A k \in 1..Len(result.folderStructure) :
                            result.folderStructure[k].rel # RelOf(p)
                      /\ \A k \in 1..Len(result.fileContents) :
                            ~IsBlockFor(result.fileContents[k], RelOf(p), PathStr(p))
                /\ \A e \in result.fileTypes :
                      \E q \in Reported \ ContributionsOf(uris[n]) :
                          TypeOf(Basename(q)) = e

-----------------------------------------------------------------------------
(* commands/commentRemover.js *)

\* The markers of the table, as texts.
SLASHES     == <<"/", "/">>
OPEN_BLOCK  == <<"/", "*">>
CLOSE_BLOCK == <<"*", "/">>
HASH        == <<"#">>
DQ3         == <<"\"", "\"", "\"">>
SQ3         == <<"'", "'", "'">>
OPEN_HTML   == <<"<", "!", "-", "-">>
CLOSE_HTML  == <<"-", "-", ">">>

\* The entries of COMMENT_PATTERNS for '.js', '.py', '.css' and '.html'; an
\* absent single marker is the empty text.
COMMENT_PATTERNS ==
    [e \in {".js", ".py", ".css", ".html"} |->
        IF e = ".js" THEN [single |-> SLASHES, multi |-> <<OPEN_BLOCK, CLOSE_BLOCK>>]
        ELSE IF e = ".py" THEN [single |-> HASH, multi |-> <<DQ3, DQ3, SQ3, SQ3>>]
        ELSE IF e = ".css" THEN [single |-> <<>>, multi |-> <<OPEN_BLOCK, CLOSE_BLOCK>>]
        ELSE [single |-> <<>>, multi |-> <<OPEN_HTML, CLOSE_HTML>>]]

isSupportedFileType(e) == e \in DOMAIN COMMENT_PATTERNS

\* The position of the line terminator at or after i, or the one after the
\* end of the text.
LineEnd(text, i) ==
    Min({k \in i..Len(text) : text[k] \in {"\n", "\r"}} \cup {Len(text) + 1})

\* replace(/<single>.*$/gm, '') from position i on.
RECURSIVE RemoveSingleLine(_, _, _)
RemoveSingleLine(text, i, single) ==
    IF i > Len(text) THEN <<>>
    ELSE IF StartsWithAt(text, i, single)
    THEN RemoveSingleLine(text, LineEnd(text, i), single)
    ELSE <<text[i]>> \o RemoveSingleLine(text, i + 1, single)

\* The span taken to run from the start marker to the last end marker.
RECURSIVE RemoveMultiLineGreedy(_, _, _, _)
RemoveMultiLineGreedy(text, i, start, end) ==
    IF i > Len(text) THEN <<>>
    ELSE
      LET ends == {j \in (i + Len(start))..Len(text) : StartsWithAt(text, j, end)}
      IN  IF StartsWithAt(text, i, start) /\ ends # {}
          THEN RemoveMultiLineGreedy(text,
                   (CHOOSE j \in ends : \A k \in ends : k <= j) + Len(end), start, end)
          ELSE <<text[i]>> \o RemoveMultiLineGreedy(text, i + 1, start, end)

\* replace(/<start>[\s\S]*?<end>/g, '') from position i on.
RECURSIVE RemoveMultiLine(_, _, _, _)
RemoveMultiLine(text, i, start, end) ==
    IF i > Len(text) THEN <<>>
    ELSE
      LET ends == {j \in (i + Len(start))..Len(text) : StartsWithAt(text, j, end)}
      IN  IF StartsWithAt(text, i, start) /\ ends # {}
          THEN RemoveMultiLine(text, Min(ends) + Len(end), start, end)
          ELSE <<text[i]>> \o RemoveMultiLine(text, i + 1, start, end)

\* The for loop over the pairs of patterns.multi, from pair k on.
RECURSIVE RemoveMultiLinePairs(_, _, _)
RemoveMultiLinePairs(text, multi, k) ==
    IF k > Len(multi) THEN text
    ELSE RemoveMultiLinePairs(RemoveMultiLine(text, 1, multi[k], multi[k + 1]),
                              multi, k + 2)

\* The two kinds of section of an HTML file, their tags written as one symbol
\* each: "<script>" is an opening script tag, whatever its attributes.
OpenTag(tag)  == IF tag = "script" THEN "<script>" ELSE "<style>"
CloseTag(tag) == IF tag = "script" THEN "</script>" ELSE "</style>"

\* What the replace callback of a section returns for its content.
CleanSection(tag, inner) ==
    IF tag = "script"
    THEN RemoveMultiLine(RemoveSingleLine(inner, 1, SLASHES), 1, OPEN_BLOCK, CLOSE_BLOCK)
    ELSE RemoveMultiLine(inner, 1, OPEN_BLOCK, CLOSE_BLOCK)

\* replace(/(<tag\b[^>]*>)([\s\S]*?)(<\/tag>)/gi, callback) from position i on.
RECURSIVE ReplaceSections(_, _, _)
ReplaceSections(text, i, tag) ==
    IF i > Len(text) THEN <<>>
    ELSE
      LET closes == {j \in (i + 1)..Len(text) : text[j] = CloseTag(tag)}
      IN  IF text[i] = OpenTag(tag) /\ closes # {}
          THEN <<OpenTag(tag)>>
               \o CleanSection(tag, Slice(text, i + 1, Min(closes) - 1))
               \o <<CloseTag(tag)>>
               \o ReplaceSections(text, Min(closes) + 1, tag)
          ELSE <<text[i]>> \o ReplaceSections(text, i + 1, tag)

\* The end of the longest run of characters of the set that starts at i;
\* i - 1 when text[i] is not in the set.
RECURSIVE RunEnd(_, _, _)
RunEnd(text, i, chars) ==
    IF i <= Len(text) /\ text[i] \in chars THEN RunEnd(text, i + 1, chars) ELSE i - 1

\* replace(/^\s*[\r\n]/gm, '') from position i on: at the start of a line,
\* the longest run of white space that ends in a line terminator.
RECURSIVE RemoveEmptyLines(_, _)
RemoveEmptyLines(text, i) ==
    IF i > Len(text) THEN <<>>
    ELSE
      LET terminators == {k \in i..RunEnd(text, i, Whitespace) : text[k] \in {"\n", "\r"}}
      IN  IF (i = 1 \/ text[i - 1] \in {"\n", "\r"}) /\ terminators # {}
          THEN RemoveEmptyLines(text, (CHOOSE k \in terminators :
                                          \A m \in terminators : m <= k) + 1)
          ELSE <<text[i]>> \o RemoveEmptyLines(text, i + 1)

\* replace(/\s+$/gm, '') from position i on: the longest run of white space
\* from i that stops at the end of the text or before a line terminator.
RECURSIVE RemoveTrailingWhitespace(_, _)
RemoveTrailingWhitespace(text, i) ==
    IF i > Len(text) THEN <<>>
    ELSE
      LET run   == RunEnd(text, i, Whitespace)
          stops == {e \in i..run : e = Len(text) \/ text[e + 1] \in {"\n", "\r"}}
      IN  IF stops # {}
          THEN RemoveTrailingWhitespace(text,
                   (CHOOSE e \in stops : \A m \in stops : m <= e) + 1)
          ELSE <<text[i]>> \o RemoveTrailingWhitespace(text, i + 1)

\* replace(/[\r\n]{3,}/g, '\n\n') from position i on.
RECURSIVE ReduceBlankLines(_, _)
ReduceBlankLines(text, i) ==
    IF i > Len(text) THEN <<>>
    ELSE
      LET run == RunEnd(text, i, {"\n", "\r"})
      IN  IF run - i + 1 >= 3
          THEN <<"\n", "\n">> \o ReduceBlankLines(text, run + 1)
          ELSE <<text[i]>> \o ReduceBlankLines(text, i + 1)

\* replace(/[ \t]+$/gm, '') from position i on.
RECURSIVE RemoveTrailingSpaces(_, _)
RemoveTrailingSpaces(text, i) ==
    IF i > Len(text) THEN <<>>
    ELSE
      LET run == RunEnd(text, i, {" ", "\t"})
      IN  IF run >= i /\ (run = Len(text) \/ text[run + 1] \in {"\n", "\r"})
          THEN RemoveTrailingSpaces(text, run + 1)
          ELSE <<text[i]>> \o RemoveTrailingSpaces(text, i + 1)

\* The four replacements that clean up white space.
CleanUpWhitespace(text) ==
    RemoveTrailingSpaces(
        ReduceBlankLines(
            RemoveTrailingWhitespace(RemoveEmptyLines(text, 1), 1), 1), 1)

removeCommentsFromContent(text, e) ==
    IF ~isSupportedFileType(e) THEN text
    ELSE
      LET patterns == COMMENT_PATTERNS[e]
          sections == ReplaceSections(ReplaceSections(text, 1, "script"), 1, "style")
          single   == IF patterns.single # <<>>
                      THEN RemoveSingleLine(text, 1, patterns.single)
                      ELSE text
      IN  IF e = ".html"
          THEN CleanUpWhitespace(RemoveMultiLine(sections, 1, OPEN_HTML, CLOSE_HTML))
          ELSE CleanUpWhitespace(RemoveMultiLinePairs(single, patterns.multi, 1))

-----------------------------------------------------------------------------
(* Specification of removeCommentsFromContent: an extension and a content   *)
(* made of a few pieces go in.                                              *)

MaxPieces == 4

\* The pieces a content is made of, by extension: markers, parts of markers,
\* an empty comment, text and white space.
PiecesOf(e) ==
    IF e \in {".js", ".css"}
    THEN {<<"/">>, <<"*">>, CLOSE_BLOCK, <<"/", "*", "*", "/">>, <<"a">>, <<" ">>, <<"\n">>}
    ELSE IF e = ".py"
    THEN {HASH, DQ3, SQ3, <<"\"">>, <<"a">>, <<" ">>, <<"\n">>}
    ELSE IF e = ".html"
    THEN {<<"<script>">>, <<"</script>">>, <<"<style>">>, <<"</style>">>,
          OPEN_HTML, CLOSE_HTML, SLASHES, <<"/", "*", "*", "/">>}
    ELSE {SLASHES, <<"a">>, <<"\n">>}

\* The contents of at most MaxPieces pieces.
ContentsOf(e) == {Concat(ps) : ps \in SeqUpTo(PiecesOf(e), MaxPieces)}

StripExts == {".js", ".py", ".css", ".html", ".txt"}

InitStrip ==
    /\ pc = "idle"
    /\ paths = <<>>
    /\ basePath = <<>>
    /\ item = NoItem
    /\ ignored = FALSE
    /\ ignorePatterns = <<>>
    /\ NoFileSystem
    /\ NoExtraction
    /\ stripExt \in StripExts
    /\ stripInput \in ContentsOf(stripExt)
    /\ cleanedContent = <<>>
    /\ NoRemoval
    /\ NoSteps
    /\ NoPrompt

RemoveCommentsFromContent ==
    /\ pc = "idle"
    /\ cleanedContent' = removeCommentsFromContent(stripInput, stripExt)
    /\ pc' = "removeCommentsFromContent"
    /\ UNCHANGED <<pathVars, ignoreVars, ignorePatterns, fsVars, extractVars,
                   stripExt, stripInput, removeVars, walkVars,
                   handlerVars>>

NextStrip == RemoveCommentsFromContent

SpecStrip == InitStrip /\ [][NextStrip]_vars

\* C10: removeCommentsFromContent applied to its own output gives that
\* output again.
C10_StripIdempotent ==
    pc = "removeCommentsFromContent" =>
        removeCommentsFromContent(cleanedContent, stripExt) = cleanedContent

-----------------------------------------------------------------------------
(* commands/commentRemover.js: the walk *)

\* Every extension taken for '.js' unless it is another key.
ExtKeyDefaultJs(e) ==
    IF e = <<".", "p", "y">> THEN ".py"
    ELSE IF e = <<".", "c", "s", "s">> THEN ".css"
    ELSE IF e = <<".", "h", "t", "m", "l">> THEN ".html"
    ELSE ".js"

\* The key of COMMENT_PATTERNS an extension is, "" for none of the keys.
ExtKey(e) ==
    IF e = <<".", "j", "s">> THEN ".js"
    ELSE IF e = <<".", "p", "y">> THEN ".py"
    ELSE IF e = <<".", "c", "s", "s">> THEN ".css"
    ELSE IF e = <<".", "h", "t", "m", "l">> THEN ".html"
    ELSE ""

\* encoder.encode(text).length
TokenCount(text) == Len(SelectSeq(text, LAMBDA c : c \notin Whitespace))

\* What a walk has done so far: the disk, the totals, the paths written in
\* order, and the files handed to processFile that it did not reject as
\* ignored.
NoWalk(d) ==
    [disk |-> d, filesProcessed |-> 0, charactersRemoved |-> 0, tokensRemoved |-> 0,
     written |-> <<>>, handed |-> {}]

\* processFile, and what its caller adds to the totals when result.processed.
processFile(filePath, base, patterns, st) ==
    LET e            == ExtKey(ToLowerCase(Extname(Basename(filePath))))
        relativePath == PathRelative(base, PathStr(filePath))
        fileName     == Basename(filePath)
        taken        == [st EXCEPT !.handed = @ \cup {filePath}]
        text         == st.disk[filePath]
        cleaned      == removeCommentsFromContent(text, e)
    IN  IF checkIsIgnored(relativePath, fileName, FALSE, patterns) THEN st
        ELSE IF ~isSupportedFileType(e) THEN taken
        ELSE IF filePath \in broken THEN taken
        ELSE IF text # cleaned
        THEN [taken EXCEPT
                !.disk[filePath]    = cleaned,
                !.written           = Append(@, filePath),
                !.filesProcessed    = @ + 1,
                !.charactersRemoved = @ + (Len(text) - Len(cleaned)),
                !.tokensRemoved     = @ + (TokenCount(text) - TokenCount(cleaned))]
        ELSE taken

RECURSIVE processDirectory(_, _, _, _)
RECURSIVE ProcessEntries(_, _, _, _, _, _)

\* The for loop of processDirectory from entry i on.
ProcessEntries(dirPath, entries, i, base, patterns, st) ==
    IF i > Len(entries) THEN st
    ELSE
      LET fullPath     == Append(dirPath, entries[i])
          relativePath == PathRelative(base, PathStr(fullPath))
      IN  IF checkIsIgnored(relativePath, entries[i], IsDirectory(fullPath), patterns)
          THEN ProcessEntries(dirPath, entries, i + 1, base, patterns, st)
          ELSE IF IsDirectory(fullPath)
          THEN ProcessEntries(dirPath, entries, i + 1, base, patterns,
                              processDirectory(fullPath, base, patterns, st))
          ELSE ProcessEntries(dirPath, entries, i + 1, base, patterns,
                              processFile(fullPath, base, patterns, st))

\* processDirectory, and what its caller adds to the totals.
processDirectory(dirPath, base, patterns, st) ==
    IF dirPath \in broken \/ ~IsDirectory(dirPath) THEN st
    ELSE ProcessEntries(dirPath, Readdir(dirPath), 1, base, patterns, st)

\* The for loop of removeComments from entry i on; stat of an absent path
\* throws, which ends the loop in the catch block.
RECURSIVE RemoveLoop(_, _, _, _, _)
RemoveLoop(selection, i, base, patterns, st) ==
    IF i > Len(selection) THEN [threw |-> FALSE, st |-> st]
    ELSE
      LET fsPath       == selection[i]
          relativePath == PathRelative(base, PathStr(fsPath))
          fileName     == Basename(fsPath)
      IN  IF Kind(fsPath) = "absent" THEN [threw |-> TRUE, st |-> st]
          ELSE IF relativePath # <<>>
                  /\ checkIsIgnored(relativePath, fileName, IsDirectory(fsPath), patterns)
          THEN RemoveLoop(selection, i + 1, base, patterns, st)
          ELSE IF IsDirectory(fsPath)
          THEN RemoveLoop(selection, i + 1, base, patterns,
                          processDirectory(fsPath, base, patterns, st))
          ELSE RemoveLoop(selection, i + 1, base, patterns,
                          processFile(fsPath, base, patterns, st))

\* What removeComments leaves behind for a Selection on the disk d.
removeComments(selection, patterns, d) ==
    IF Len(selection) = 0
    THEN [st |-> NoWalk(d), encoder |-> [acquired |-> 0, freed |-> 0],
          message |-> message]
    ELSE
      LET selectedPaths == [k \in 1..Len(selection) |-> PathStr(selection[k])]
          base          == findCommonBasePath(selectedPaths)
          loop          == RemoveLoop(selection, 1, base, patterns, NoWalk(d))
      IN  IF loop.threw
          THEN [st |-> loop.st, encoder |-> [acquired |-> 1, freed |-> 0],
                message |-> "error"]
          ELSE [st |-> loop.st, encoder |-> [acquired |-> 1, freed |-> 1],
                message |-> IF loop.st.filesProcessed > 0 THEN "removed"
                            ELSE "no comments"]

-----------------------------------------------------------------------------
(* Specification of removeComments: a tree of source files, a rule list and *)
(* a Selection; the command may be run again on the same Selection.         *)

MaxRuns == 2

nE == <<"e", ".", "J", "s">>
nF == <<"f", ".", "c", "s", "s">>

pAE  == <<nW, nA, nE>>
pABF == <<nW, nA, nB, nF>>

\* /w/a holds e.Js and d.P and may hold the directory b with f.css; /w/b may
\* be a file without extension.
SourceTrees ==
    {f \in [{pA, pAB, pABF, pAE, pAD, pB} -> {"dir", "text", "absent"}] :
        /\ f[pA] = "dir" /\ f[pAE] = "text" /\ f[pAD] = "text"
        /\ f[pAB] \in {"dir", "absent"}
        /\ f[pABF] = (IF f[pAB] = "dir" THEN "text" ELSE "absent")
        /\ f[pB] \in {"text", "absent"}}

\* The contents a source file may have: without a comment, with a comment,
\* with nothing but white space to clean up, and a comment inside which a
\* comment ends.
SourceTexts(p) ==
    IF p = pAE
    THEN {<<"a">>, <<"a", "/", "/", "a">>, <<"a", " ", "\n">>}
    ELSE IF p = pABF
    THEN {<<"a">>, <<"/", "*", "a", "*", "/", "a">>,
          <<"/", "/", "*", "*", "/", "*", "*", "/">>}
    ELSE IF p = pAD THEN {<<"/", "/", "a", " ", "\n">>}
    ELSE {<<"#", "a", " ">>}

SourceDisks(f) ==
    {d \in [DOMAIN f -> UNION {SourceTexts(p) : p \in DOMAIN f} \cup {<<>>}] :
        \A p \in DOMAIN f :
            d[p] \in (IF f[p] = "text" THEN SourceTexts(p) ELSE {<<>>})}

rNameE == <<"e", ".", "J", "s">>

RemoveRuleLists == { <<>>, <<rPathAB>>, <<rNameB>>, <<rNameE>> }

\* The paths a Selection of removeComments can name.
SourceSelectable == {pA, pAB, pABF, pAE, pB}

InitRemove ==
    /\ pc = "idle"
    /\ paths = <<>>
    /\ basePath = <<>>
    /\ item = NoItem
    /\ ignored = FALSE
    /\ ignorePatterns \in RemoveRuleLists
    /\ fs \in SourceTrees
    /\ disk \in SourceDisks(fs)
    /\ readdirOrder \in {<<nB, nDP, nE, nF>>, <<nE, nDP, nB, nF>>}
    /\ broken \in {b \in SUBSET {pAB, pAE} :
                     Cardinality(b) <= 1 /\ \A p \in b : fs[p] # "absent"}
    /\ NoExtraction
    /\ NoStrip
    /\ NoRemoval
    /\ NoSteps
    /\ NoPrompt

RemoveComments ==
    /\ pc \in {"idle", "removeComments"}
    /\ runs < MaxRuns
    /\ \E selection \in (IF runs = 0 THEN SeqUpTo(SourceSelectable, MaxSelection)
                         ELSE {uris}) :
          \E out \in {removeComments(selection, ignorePatterns, disk)} :
              /\ uris' = selection
              /\ basePath' = findCommonBasePath(
                                [k \in 1..Len(selection) |-> PathStr(selection[k])])
              /\ disk' = out.st.disk
              /\ encoder' = out.encoder
              /\ totals' = [filesProcessed    |-> out.st.filesProcessed,
                            charactersRemoved |-> out.st.charactersRemoved,
                            tokensRemoved     |-> out.st.tokensRemoved]
              /\ written' = out.st.written
              /\ handed' = out.st.handed
              /\ message' = out.message
    /\ runs' = runs + 1
    /\ pc' = "removeComments"
    /\ UNCHANGED <<paths, ignoreVars, ignorePatterns, fs, readdirOrder, broken,
                   travArgs, result, finalContent, clipboard, stripVars, walkVars,
                   handlerVars>>

NextRemove == RemoveComments

SpecRemove == InitRemove /\ [][NextRemove]_vars

-----------------------------------------------------------------------------
(* Properties of a removal. *)

\* The paths of a sequence.
Range(seq) == {seq[k] : k \in 1..Len(seq)}

\* C11: the files counted as changed are the files overwritten, and a run
\* directly after a completed run overwrites nothing and reports no file
\* changed, no character removed and no token removed.
C11_RerunWritesNothing ==
    pc = "removeComments" =>
        /\ totals.filesProcessed = Len(written)
        /\ (runs = 2 /\ message # "error") =>
              /\ written = <<>>
              /\ totals = NoTotals

\* The extensions of the comment-pattern table that the model holds.
TableExtensions ==
    {<<".", "j", "s">>, <<".", "p", "y">>, <<".", "c", "s", "s">>,
     <<".", "h", "t", "m", "l">>}

\* The files whose lowercased extension is not in the table.
Unsupported ==
    {p \in DOMAIN fs :
        fs[p] = "text" /\ ToLowerCase(Extname(Basename(p))) \notin TableExtensions}

\* The sum of f over a finite set.
RECURSIVE SumOver(_, _)
SumOver(S, f) ==
    IF S = {} THEN 0
    ELSE LET x == CHOOSE y \in S : TRUE IN f[x] + SumOver(S \ {x}, f)

\* C12: a run of removeComments leaves every file with an unsupported
\* extension as it is on disk and never writes it, and the totals are those
\* of the files written: the characters and tokens that left each of them.
C12_UnsupportedUntouched ==
    [][\A p \in Unsupported :
          /\ disk'[p] = disk[p]
          /\ p \notin Range(written')
          /\ totals'.filesProcessed = Len(written')
          /\ totals'.charactersRemoved =
                SumOver(Range(written'),
                        [q \in Range(written') |-> Len(disk[q]) - Len(disk'[q])])
          /\ totals'.tokensRemoved =
                SumOver(Range(written'),
                        [q \in Range(written') |-> TokenCount(disk[q]) - TokenCount(disk'[q])])
      ]_vars

\* A run over /w/a has changed a source file and has handed d.P, which has
\* '//a' and trailing white space in it, to processFile.
C12_Witness ==
    /\ pc = "removeComments"
    /\ pAD \in handed /\ pAD \in Unsupported
    /\ written # <<>>
    /\ disk[pAD] = <<"/", "/", "a", " ", "\n">>

-----------------------------------------------------------------------------
(* Properties of removeCommentsFromContent. *)

\* The positions at or after i where an end marker begins that can close a
\* start marker at i.
ClosesAfter(text, i, start, end) ==
    {j \in (i + Len(start))..Len(text) : StartsWithAt(text, j, end)}

\* The positions from which a comment can run: a start marker with an end
\* marker after it.
Opens(text, start, end) ==
    {i \in 1..Len(text) :
        StartsWithAt(text, i, start) /\ ClosesAfter(text, i, start, end) # {}}

\* The comment spans <<first, last>> of a text from position from on: the
\* leftmost one, then those of the text behind it.
RECURSIVE CommentSpans(_, _, _, _)
CommentSpans(text, from, start, end) ==
    LET opens == {i \in Opens(text, start, end) : i >= from}
    IN  IF opens = {} THEN {}
        ELSE LET a == Min(opens)
                 b == Min(ClosesAfter(text, a, start, end)) + Len(end) - 1
             IN  {<<a, b>>} \cup CommentSpans(text, b + 1, start, end)

\* The text without the positions of the spans.
WithoutSpans(text, spans) ==
    LET kept == {k \in 1..Len(text) : \A sp \in spans : k < sp[1] \/ k > sp[2]}
        keptBefore(k) == Cardinality({m \in kept : m <= k})
    IN  [n \in 1..Cardinality(kept) |->
            text[CHOOSE k \in kept : keptBefore(k) = n]]

\* One pass per marker pair, each on the text the pass before left.
RECURSIVE WithoutComments(_, _, _)
WithoutComments(text, multi, k) ==
    IF k > Len(multi) THEN text
    ELSE WithoutComments(
             WithoutSpans(text, CommentSpans(text, 1, multi[k], multi[k + 1])),
             multi, k + 2)

\* What the multi-line passes are given for the content X of an extension.
BeforeMultiLine(X, e) ==
    IF COMMENT_PATTERNS[e].single # <<>>
    THEN RemoveSingleLine(X, 1, COMMENT_PATTERNS[e].single) ELSE X

\* C13: for each marker pair the removal deletes the comment spans found
\* from left to right, each from a start marker to the first end marker
\* behind it and none overlapping another, and keeps all other text: what
\* lies between two comments, and a start marker outside every comment that
\* no end marker follows, with everything behind it.
C13_FirstEndClosesSpan ==
    (pc = "removeCommentsFromContent" /\ stripExt \in {".js", ".py", ".css"}) =>
        LET multi == COMMENT_PATTERNS[stripExt].multi
            X     == BeforeMultiLine(stripInput, stripExt)
            spans == CommentSpans(X, 1, multi[1], multi[2])
        IN  /\ cleanedContent = CleanUpWhitespace(WithoutComments(X, multi, 1))
            /\ \A sp \in spans :
                  /\ StartsWithAt(X, sp[1], multi[1])
                  /\ StartsWithAt(X, sp[2] - Len(multi[2]) + 1, multi[2])
                  /\ \A j \in (sp[1] + Len(multi[1]))..(sp[2] - Len(multi[2])) :
                        ~StartsWithAt(X, j, multi[2])
                  /\ \A other \in spans \ {sp} : other[2] < sp[1] \/ other[1] > sp[2]
            /\ \A i \in 1..Len(X) :
                  (StartsWithAt(X, i, multi[1])
                     /\ ClosesAfter(X, i, multi[1], multi[2]) = {}
                     /\ \A sp \in spans : i < sp[1] \/ i > sp[2])
                  => \A sp \in spans : sp[2] < i

\* Two comments with text between them: the text is what is left.
C13_Witness ==
    /\ pc = "removeCommentsFromContent"
    /\ stripExt = ".css"
    /\ stripInput = <<"/", "*", "*", "/", "a", "/", "*", "*", "/">>
    /\ cleanedContent = <<"a">>

-----------------------------------------------------------------------------
(* Further properties of a removal. *)

\* C14: a call of removeComments that has acquired the encoder has freed it
\* exactly once when it returns, whether it completed or ended in its error
\* handler.
C14_EncoderFreedOnce ==
    pc = "removeComments" =>
        (encoder.acquired = 1 => encoder.freed = 1)

\* String.prototype.includes for a text.
Contains(text, part) == \E i \in 1..(Len(text) + 1) : StartsWithAt(text, i, part)

\* The comment markers of an extension of the table.
MarkersOf(e) ==
    {m \in {COMMENT_PATTERNS[e].single} \cup Range(COMMENT_PATTERNS[e].multi) : m # <<>>}

\* The text of the file p holds a comment marker of the file's extension.
HoldsMarker(p) ==
    LET e == ExtKey(ToLowerCase(Extname(Basename(p))))
    IN  /\ isSupportedFileType(e)
        /\ \E m \in MarkersOf(e) : Contains(disk[p], m)

-----------------------------------------------------------------------------
(* Further properties of an extraction. *)

\* The entries of the Selection that are readable text files which no rule
\* ignores and whose text holds no marker.
GoodFileEntries ==
    {u \in Range(uris) :
        /\ u \in Present /\ Kind(u) = "text" /\ u \notin broken
        /\ ~SelectionIgnored(u)
        /\ ~Includes(FileText(u), "[IGNORED BY PATTERN]")}

\* C15: whatever happens to the other entries of the Selection, the
\* FileBlock of every selected readable text file that no rule ignores is in
\* the text extractCode returns.
C15_OtherEntriesStillProcessed ==
    pc = "extractCode" =>
        \A u \in GoodFileEntries :
            Contains(finalContent, TextBlock(RelOf(u), FileText(u)))

\* What one entry of the Selection adds to the tree text and to the content
\* section: nothing when it is ignored, the result of its traversal when it
\* is a directory, its own lines and FileBlock when it is a file.
EntryResult(u) ==
    IF RelOf(u) # <<>> /\ SelectionIgnored(u) THEN EmptyResult
    ELSE IF IsDirectory(u) THEN traverseDirectory(u, 0, basePath, ignorePatterns)
    ELSE IF Includes(getFileContent(u, basePath, ignorePatterns), "[IGNORED BY PATTERN]")
    THEN EmptyResult
    ELSE [EmptyResult EXCEPT
            !.folderStructure = SelectedFileLines(RelOf(u)),
            !.fileContents    = <<getFileContent(u, basePath, ignorePatterns)>>]

\* C18: the text extractCode returns when it completes is 'File types: ' and
\* the distinct extension tags in ascending order joined by ', ', a blank
\* line, 'Folder Structure:', the base path on a line, the tree text, a blank
\* line, 'File Contents:' and the FileBlocks; tree text and FileBlocks are
\* those of the entries in Selection order, each directory's in traversal
\* order.
C18_FinalContentFormat ==
    (pc = "extractCode" /\ message = "info") =>
        LET perEntry == [n \in 1..Len(uris) |-> EntryResult(uris[n])]
        IN  /\ result.folderStructure =
                  Concat([n \in 1..Len(uris) |-> perEntry[n].folderStructure])
            /\ result.fileContents =
                  Concat([n \in 1..Len(uris) |-> perEntry[n].fileContents])
            /\ \E tags \in [1..Cardinality(result.fileTypes) -> result.fileTypes] :
                  /\ \A j, k \in DOMAIN tags : j < k => CodeUnitLess(tags[j], tags[k])
                  /\ finalContent =
                        <<"File types: ">> \o JoinWith(tags, <<",", " ">>)
                        \o <<"\n", "\n", "Folder Structure:", "\n">>
                        \o basePath \o <<"\n">>
                        \o FolderStructureText(result.folderStructure)
                        \o <<"\n", "\n", "File Contents:", "\n">>
                        \o Concat(result.fileContents)

\* The file d.P and then the directory b with c.j in it: two tags, and the
\* FileBlock of d.P before that of c.j.
C18_Witness ==
    /\ pc = "extractCode" /\ message = "info"
    /\ uris = <<pAD, pAB>>
    /\ result.fileTypes = {<<"j">>, <<"p">>}
    /\ Len(result.fileContents) = 2
    /\ IsBlockFor(result.fileContents[1], RelOf(pAD), PathStr(pAD))
    /\ StartsWithAt(finalContent, 1, <<"File types: ", "j", ",", " ", "p", "\n">>)

\* The readable text files the result reports that no rule ignores.
IncludedTextFiles ==
    {p \in Reported : Kind(p) = "text" /\ p \notin broken /\ ~SelectionIgnored(p)}

\* The FileBlocks of the result that begin with the header of p.
BlocksOf(p) ==
    {b \in Range(result.fileContents) :
        IsPrefix(<<"\n", "-">> \o RelOf(p) \o <<"-", "\n">>, b)}

\* Every included text file has a FileBlock, and each of its FileBlocks is
\* its header, the text now on disk without its trailing white space, and a
\* line break.
BlocksHoldTrimmedText ==
    \A p \in IncludedTextFiles :
        /\ BlocksOf(p) # {}
        /\ \A b \in BlocksOf(p) :
              b = <<"\n", "-">> \o RelOf(p) \o <<"-", "\n">>
                      \o TrimEnd(disk[p]) \o <<"\n">>

\* C19: a call of extractCode leaves the kind and the content of every file
\* as they were before the call, and the FileBlock of each included text
\* file is its header followed by the file's text as it was before the call,
\* comment markers and comment text included, without its trailing white
\* space and closed by a line break.
C19_ExtractWritesNothing ==
    /\ [][pc' = "extractCode" => (fs' = fs /\ disk' = disk)]_vars
    /\ [](pc = "extractCode" => BlocksHoldTrimmedText)

\* The file c.j holds 'x//c' before and after the call and its FileBlock
\* holds 'x//c'.
C19_Witness ==
    /\ pc = "extractCode" /\ message = "info"
    /\ pABC \in IncludedTextFiles
    /\ disk[pABC] = <<"x", "/", "/", "c">>
    /\ <<"\n", "-">> \o RelOf(pABC) \o <<"-", "\n", "x", "/", "/", "c", "\n">>
           \in Range(result.fileContents)

\* C19 as stated: the FileBlock of each included text file holds the whole
\* text of the file, nothing removed.
C19_BlocksHoldOriginalText ==
    pc = "extractCode" =>
        \A p \in IncludedTextFiles :
            \E b \in BlocksOf(p) : Contains(b, disk[p])

\* The relative paths of the files the walk of removeComments hands to
\* processFile and does not reject as ignored, for the Selection, tree and
\* rule list of the extraction.
HandedByRemoval ==
    {RelOf(p) : p \in removeComments(uris, ignorePatterns, disk).st.handed}

\* C20: for one Selection, tree and rule list, the files removeComments hands
\* to processFile and does not reject as ignored are the files extractCode
\* puts in its files set.
C20_WalksAgree ==
    (pc = "extractCode" /\ message = "info") =>
        HandedByRemoval = result.files

\* The positions of the FileBlocks and of the leaf lines of the file p in
\* the result.
BlockPositions(p) ==
    {k \in 1..Len(result.fileContents) :
        IsBlockFor(result.fileContents[k], RelOf(p), PathStr(p))}
LeafPositions(p) ==
    {k \in 1..Len(result.folderStructure) :
        /\ result.folderStructure[k].kind = "file"
        /\ result.folderStructure[k].rel = RelOf(p)}

\* Two entries of the Selection overlap: the same path twice, or a path and
\* a path below it.
Overlapping ==
    \E m, n \in 1..Len(uris) :
        m # n /\ (uris[m] = uris[n] \/ Below(uris[m], uris[n]))

\* C22: when extractCode completes, every file whose path is in files has
\* exactly one FileBlock and exactly one leaf line in the tree, whether or
\* not entries of the Selection overlap.
C22_OneBlockOneLeaf ==
    (pc = "extractCode" /\ message = "info") =>
        \A p \in Reported :
            /\ Cardinality(BlockPositions(p)) = 1
            /\ Cardinality(LeafPositions(p)) = 1

\* The entries of the Selection that are files no rule matches.
UnignoredFileEntries ==
    {u \in Range(uris) : u \in Present /\ ~IsDirectory(u) /\ ~SelectionIgnored(u)}

\* C23: when extractCode completes, every directly selected file that no
\* rule matches has its path in files and a FileBlock in the content
\* section, and when it is a readable text file with an extension, the
\* extension is among the file types, whatever the text of the file is.
C23_SelectedFileIncluded ==
    (pc = "extractCode" /\ message = "info") =>
        \A u \in UnignoredFileEntries :
            /\ RelOf(u) \in result.files
            /\ BlockPositions(u) # {}
            /\ (Kind(u) = "text" /\ u \notin broken /\ TypeOf(Basename(u)) # <<>>)
                  => TypeOf(Basename(u)) \in result.fileTypes

\* C24: the set of file types extractCode collects holds no empty
\* extension, so the 'File types:' line names none, whether the files were
\* found by traverseDirectory or selected directly.
C24_NoEmptyExtension ==
    pc = "extractCode" => <<>> \notin result.fileTypes

\* The block is the one getFileContent returns for an ignored file.
IsIgnoredBlock(block) ==
    /\ StartsWithAt(block, 1, <<"\n", "-", "-", "-", " ">>)
    /\ EndsWith(block, <<" ", "[IGNORED BY PATTERN]", " ", "\n">>)

\* C26: no FileBlock of the result of extractCode, from a walk of a
\* directory or from a directly selected file, is the block of an ignored
\* file; checkIsIgnored is false for every file in files, so the check
\* inside getFileContent was false for it; and the returned text holds the
\* block of an ignored file for no path.
C26_NoIgnoredBlock ==
    pc = "extractCode" =>
        /\ \A k \in 1..Len(result.fileContents) : ~IsIgnoredBlock(result.fileContents[k])
        /\ \A p \in Reported :
              ~checkIsIgnored(RelOf(p), Basename(p), FALSE, ignorePatterns)
        /\ \A p \in Present : ~Contains(finalContent, IgnoredBlock(RelOf(p)))

\* The rule *.j is in force and the directory a is selected: the walk leaves
\* c.j, for which getFileContent would give the block of an ignored file,
\* out, and gives the block of d.P.
C26_Witness ==
    /\ pc = "extractCode" /\ message = "info"
    /\ ignorePatterns = <<rStarJ>>
    /\ uris = <<pA>>
    /\ Kind(pABC) = "text" /\ Kind(pAD) = "text"
    /\ IsIgnoredBlock(getFileContent(pABC, basePath, ignorePatterns))
    /\ result.files = {RelOf(pAD)}
    /\ Len(result.fileContents) = 1
    /\ ~IsIgnoredBlock(result.fileContents[1])

-----------------------------------------------------------------------------
(* Further properties of a traversal. *)

\* The relative path traverseDirectory gives a path.
TravRel(p) == PathRelative(travArgs.basePath, PathStr(p))

\* The rules ignore the path p.
TravIgnored(p) ==
    IgnoredByRules([relPath |-> TravRel(p), name |-> Basename(p),
                    isDirectory |-> IsDirectory(p)], ignorePatterns)

\* The paths from the traversed directory down to p, the traversed directory
\* among them when it is not the base path.
WalkTo(p) ==
    {d \in Present :
        /\ (d = p \/ Below(d, p))
        /\ (Below(travArgs.dir, d) \/ (d = travArgs.dir /\ TravRel(d) # <<>>))}

\* The files the walk comes to: below the traversed directory, with no
\* ignored path and no unlistable directory on the way.
Walked ==
    {p \in Present :
        /\ ~IsDirectory(p) /\ Below(travArgs.dir, p)
        /\ travArgs.dir \notin broken
        /\ \A d \in WalkTo(p) :
              ~TravIgnored(d) /\ (IsDirectory(d) => d \notin broken)}

\* The file has its line in the tree, its path in files and a FileBlock.
Rendered(p) ==
    /\ TravRel(p) \in result.files
    /\ \E k \in 1..Len(result.folderStructure) :
          /\ result.folderStructure[k].kind = "file"
          /\ result.folderStructure[k].rel = TravRel(p)
    /\ \E k \in 1..Len(result.fileContents) :
          IsBlockFor(result.fileContents[k], TravRel(p), PathStr(p))

\* C16: a file of the walk that cannot be read has the error block with the
\* error message as its FileBlock, and every file of the walk, the siblings
\* behind it and the files of later directories among them, is rendered.
C16_ReadErrorInBand ==
    pc = "traverseDirectory" =>
        \A p \in Walked :
            p \in broken =>
                /\ \E k \in 1..Len(result.fileContents) :
                      /\ result.fileContents[k] = ErrorBlock(PathStr(p))
                      /\ Includes(result.fileContents[k], ErrMsg)
                /\ \A q \in Walked : Rendered(q)

\* /w/a/b is a file that cannot be read; d.P behind it and c.j of /w, which
\* is walked after /w/a, are rendered.
C16_Witness ==
    /\ pc = "traverseDirectory"
    /\ travArgs.dir = pW
    /\ Kind(pAB) = "text" /\ pAB \in broken /\ pAB \in Walked
    /\ pAD \in Walked /\ pC \in Walked
    /\ Rendered(pAD) /\ Rendered(pC)

\* C17: a directory that cannot be listed adds nothing to the result, an
\* empty TraversalResult being returned for it, and the walk goes on with its
\* siblings.
C17_ListErrorGivesEmptyResult ==
    pc = "traverseDirectory" =>
        \A d \in result.listed :
            d \in broken =>
                /\ \A k \in 1..Len(result.folderStructure) :
                      result.folderStructure[k].kind # "error"
                /\ d = travArgs.dir =>
                      /\ result.folderStructure = <<>>
                      /\ result.fileTypes = {}
                      /\ result.files = {}
                      /\ result.fileContents = <<>>
                /\ \A q \in Walked : Rendered(q)

-----------------------------------------------------------------------------
(* The two walks one step at a time: every iteration of the for loops of    *)
(* extractCode, traverseDirectory, removeComments and processDirectory is a *)
(* step, and every call of traverseDirectory or processDirectory that has   *)
(* not returned is a frame [dir, entries, i, level, entry] of the stack;    *)
(* entry is the index of the Selection entry the call was made for.         *)

\* path.join(dir, entry.name) that loses the name.
EntryPathSameDir(dir, name) == dir

\* path.join(dir, entry.name)
EntryPath(dir, name) == Append(dir, name)

\* The stack with the loop of its top frame one entry further.
Advanced == [stack EXCEPT ![Len(stack)].i = @ + 1]

\* traverseDirectory up to its for loop: readdir, the check of the directory
\* itself and its tree line.  It gives the frame of the loop, or no frame
\* when the call returns at once, and what the call adds to the result.
TraverseCall(dir, level, n) ==
    LET relativeDirPath == PathRelative(basePath, PathStr(dir))
        seen            == [result EXCEPT !.listed = @ \cup {dir}]
    IN  IF dir \in broken
        THEN [push   |-> <<>>,
              result |-> [seen EXCEPT !.folderStructure = Append(@, ErrorLine(dir))]]
        ELSE IF relativeDirPath # <<>>
                /\ checkIsIgnored(relativeDirPath, Basename(dir), TRUE, ignorePatterns)
        THEN [push |-> <<>>, result |-> seen]
        ELSE IF relativeDirPath # <<>>
        THEN [push   |-> <<[dir |-> dir, entries |-> SortEntries(dir, Readdir(dir)),
                            i |-> 1, level |-> level + 1, entry |-> n]>>,
              result |-> [seen EXCEPT !.folderStructure = Append(@,
                             TreeLine("dir", level, LAST, Basename(dir), relativeDirPath))]]
        ELSE [push   |-> <<[dir |-> dir, entries |-> SortEntries(dir, Readdir(dir)),
                            i |-> 1, level |-> level, entry |-> n]>>,
              result |-> seen]

\* processDirectory up to its for loop: readdir.
ProcessCall(dir, n) ==
    IF dir \in broken THEN <<>>
    ELSE <<[dir |-> dir, entries |-> Readdir(dir), i |-> 1, level |-> 0, entry |-> n]>>

\* What removeComments has done so far.
Carried ==
    [disk |-> disk, filesProcessed |-> totals.filesProcessed,
     charactersRemoved |-> totals.charactersRemoved,
     tokensRemoved |-> totals.tokensRemoved, written |-> written, handed |-> handed]

Carry(st) ==
    /\ disk' = st.disk
    /\ totals' = [filesProcessed    |-> st.filesProcessed,
                  charactersRemoved |-> st.charactersRemoved,
                  tokensRemoved     |-> st.tokensRemoved]
    /\ written' = st.written
    /\ handed' = st.handed

\* One call of processFile.  fs.writeFile may throw: the catch block of
\* processFile then returns processed: false and the file is as it was.
ProcessFileStep(filePath) ==
    \E writeThrows \in BOOLEAN :
        \E out \in {processFile(filePath, basePath, ignorePatterns, Carried)} :
            IF writeThrows /\ out.written # written
            THEN Carry([Carried EXCEPT !.handed = out.handed])
            ELSE Carry(out)

\* The trees the walks run on: those of SpecRemove, every text file with one
\* content.
WalkDisk(f) ==
    [p \in DOMAIN f |->
        IF f[p] # "text" THEN <<>>
        ELSE IF p = pAE THEN <<"a", "/", "/", "a">>
        ELSE IF p = pABF THEN <<"/", "*", "a", "*", "/", "a">>
        ELSE IF p = pAD THEN <<"/", "/", "a", " ", "\n">>
        ELSE <<"#", "a", " ">>]

WalkRuleLists == {<<>>, <<rNameE>>}

InitWalk ==
    /\ pc = "idle"
    /\ paths = <<>>
    /\ basePath = <<>>
    /\ item = NoItem
    /\ ignored = FALSE
    /\ ignorePatterns \in WalkRuleLists
    /\ fs \in SourceTrees
    /\ disk = WalkDisk(fs)
    /\ readdirOrder = <<nE, nDP, nB, nF>>
    /\ broken \in {b \in SUBSET {pAB, pAE} :
                     Cardinality(b) <= 1 /\ \A p \in b : fs[p] # "absent"}
    /\ NoExtraction
    /\ NoStrip
    /\ NoRemoval
    /\ NoSteps
    /\ NoPrompt

\* A command is invoked: the guard on the Selection, the encoder and the
\* base path.
StartWalk ==
    /\ pc = "idle"
    /\ \E op \in {"extract", "remove"} :
       \E selection \in SeqUpTo(SourceSelectable, MaxSelection) :
          /\ walkOp' = op
          /\ uris' = selection
          /\ basePath' = findCommonBasePath(
                            [k \in 1..Len(selection) |-> PathStr(selection[k])])
          /\ cursor' = 1
          /\ pc' = IF Len(selection) = 0 THEN "returned" ELSE "walking"
          /\ encoder' = IF op = "remove" /\ Len(selection) > 0
                        THEN [acquired |-> 1, freed |-> 0] ELSE encoder
    /\ UNCHANGED <<paths, ignoreVars, ignorePatterns, fsVars, travArgs, result,
                   finalContent, clipboard, message, stripVars, totals, written,
                   handed, runs, stack, entered, handlerVars>>

\* One iteration of the for loop of extractCode.
ExtractSelectionStep ==
    /\ pc = "walking" /\ walkOp = "extract"
    /\ stack = <<>> /\ cursor <= Len(uris)
    /\ LET fsPath       == uris[cursor]
           relativePath == PathRelative(basePath, PathStr(fsPath))
       IN  IF Kind(fsPath) = "absent"
           THEN /\ pc' = "returned"
                /\ message' = "error"
                /\ UNCHANGED <<cursor, stack, entered, result>>
           ELSE /\ pc' = pc
                /\ message' = message
                /\ cursor' = cursor + 1
                /\ IF relativePath # <<>>
                      /\ checkIsIgnored(relativePath, Basename(fsPath),
                                        IsDirectory(fsPath), ignorePatterns)
                   THEN UNCHANGED <<stack, entered, result>>
                   ELSE IF IsDirectory(fsPath)
                   THEN \E out \in {TraverseCall(fsPath, 0, cursor)} :
                           /\ stack' = out.push
                           /\ result' = out.result
                           /\ entered' = Append(entered, [dir |-> fsPath, entry |-> cursor])
                   ELSE /\ result' = ExtractFile(result, fsPath, basePath, ignorePatterns)
                        /\ UNCHANGED <<stack, entered>>
    /\ UNCHANGED <<paths, ignoreVars, ignorePatterns, fsVars, uris, basePath, travArgs,
                   finalContent, clipboard, stripVars, removeVars, walkOp, handlerVars>>

\* One iteration of the for loop of traverseDirectory.
TraverseStep ==
    /\ pc = "walking" /\ walkOp = "extract"
    /\ stack # <<>>
    /\ LET top == stack[Len(stack)]
       IN  /\ top.i <= Len(top.entries)
           /\ LET name              == top.entries[top.i]
                  entryPath         == EntryPath(top.dir, name)
                  entryRelativePath == PathRelative(basePath, PathStr(entryPath))
                  prefix            == IF IsLastEntry(top.entries, top.i)
                                       THEN LAST ELSE BRANCH
                  ext               == Slice(ToLowerCase(Extname(name)), 2,
                                             Len(Extname(name)))
              IN  IF checkIsIgnored(entryRelativePath, name, IsDirectory(entryPath),
                                    ignorePatterns)
                  THEN /\ stack' = Advanced
                       /\ UNCHANGED <<entered, result>>
                  ELSE IF IsDirectory(entryPath)
                  THEN \E out \in {TraverseCall(entryPath, top.level, top.entry)} :
                          /\ stack' = Advanced \o out.push
                          /\ result' = out.result
                          /\ entered' = Append(entered,
                                               [dir |-> entryPath, entry |-> top.entry])
                  ELSE /\ stack' = Advanced
                       /\ result' =
                            [folderStructure |-> Append(result.folderStructure,
                                 TreeLine("file", top.level, prefix, name,
                                          entryRelativePath)),
                             fileTypes    |-> IF ext # <<>> THEN result.fileTypes \cup {ext}
                                              ELSE result.fileTypes,
                             files        |-> result.files \cup {entryRelativePath},
                             fileContents |-> Append(result.fileContents,
                                   getFileContent(entryPath, basePath, ignorePatterns)),
                             listed       |-> result.listed]
                       /\ UNCHANGED entered
    /\ UNCHANGED <<pc, paths, ignoreVars, ignorePatterns, fsVars, uris, basePath,
                   travArgs, finalContent, clipboard, message, stripVars, removeVars,
                   walkOp, cursor, handlerVars>>

\* One iteration of the for loop of removeComments.
RemoveSelectionStep ==
    /\ pc = "walking" /\ walkOp = "remove"
    /\ stack = <<>> /\ cursor <= Len(uris)
    /\ LET fsPath       == uris[cursor]
           relativePath == PathRelative(basePath, PathStr(fsPath))
       IN  IF Kind(fsPath) = "absent"
           THEN /\ pc' = "returned"
                /\ message' = "error"
                /\ UNCHANGED <<cursor, stack, entered, disk, totals, written, handed>>
           ELSE /\ pc' = pc
                /\ message' = message
                /\ cursor' = cursor + 1
                /\ IF relativePath # <<>>
                      /\ checkIsIgnored(relativePath, Basename(fsPath),
                                        IsDirectory(fsPath), ignorePatterns)
                   THEN UNCHANGED <<stack, entered, disk, totals, written, handed>>
                   ELSE IF IsDirectory(fsPath)
                   THEN /\ stack' = ProcessCall(fsPath, cursor)
                        /\ entered' = Append(entered, [dir |-> fsPath, entry |-> cursor])
                        /\ UNCHANGED <<disk, totals, written, handed>>
                   ELSE /\ ProcessFileStep(fsPath)
                        /\ UNCHANGED <<stack, entered>>
    /\ UNCHANGED <<paths, ignoreVars, ignorePatterns, fs, readdirOrder, broken, uris,
                   basePath, travArgs, result, finalContent, clipboard, stripVars,
                   encoder, runs, walkOp, handlerVars>>

\* One iteration of the for loop of processDirectory.
ProcessStep ==
    /\ pc = "walking" /\ walkOp = "remove"
    /\ stack # <<>>
    /\ LET top == stack[Len(stack)]
       IN  /\ top.i <= Len(top.entries)
           /\ LET name         == top.entries[top.i]
                  fullPath     == EntryPath(top.dir, name)
                  relativePath == PathRelative(basePath, PathStr(fullPath))
              IN  IF checkIsIgnored(relativePath, name, IsDirectory(fullPath),
                                    ignorePatterns)
                  THEN /\ stack' = Advanced
                       /\ UNCHANGED <<entered, disk, totals, written, handed>>
                  ELSE IF IsDirectory(fullPath)
                  THEN /\ stack' = Advanced \o ProcessCall(fullPath, top.entry)
                       /\ entered' = Append(entered,
                                            [dir |-> fullPath, entry |-> top.entry])
                       /\ UNCHANGED <<disk, totals, written, handed>>
                  ELSE /\ stack' = Advanced
                       /\ ProcessFileStep(fullPath)
                       /\ UNCHANGED entered
    /\ UNCHANGED <<pc, paths, ignoreVars, ignorePatterns, fs, readdirOrder, broken,
                   uris, basePath, travArgs, result, finalContent, clipboard, message,
                   stripVars, encoder, runs, walkOp, cursor, handlerVars>>

\* The for loop of the top frame is over: the call returns to its caller.
ReturnStep ==
    /\ pc = "walking"
    /\ stack # <<>>
    /\ stack[Len(stack)].i > Len(stack[Len(stack)].entries)
    /\ stack' = SubSeq(stack, 1, Len(stack) - 1)
    /\ UNCHANGED <<pc, pathVars, ignoreVars, ignorePatterns, fsVars, extractVars,
                   stripVars, removeVars, walkOp, cursor, entered, handlerVars>>

\* The for loop of extractCode is over: the final content, the clipboard,
\* the message.
FinishExtract ==
    /\ pc = "walking" /\ walkOp = "extract"
    /\ stack = <<>> /\ cursor > Len(uris)
    /\ finalContent' = formatFinalContent(result, basePath)
    /\ clipboard' = formatFinalContent(result, basePath)
    /\ message' = "info"
    /\ pc' = "returned"
    /\ UNCHANGED <<pathVars, ignoreVars, ignorePatterns, fsVars, uris, travArgs, result,
                   stripVars, removeVars, walkVars, handlerVars>>

\* The for loop of removeComments is over: the encoder is freed and the
\* totals are reported.
FinishRemove ==
    /\ pc = "walking" /\ walkOp = "remove"
    /\ stack = <<>> /\ cursor > Len(uris)
    /\ encoder' = [encoder EXCEPT !.freed = @ + 1]
    /\ message' = IF totals.filesProcessed > 0 THEN "removed" ELSE "no comments"
    /\ pc' = "returned"
    /\ UNCHANGED <<pathVars, ignoreVars, ignorePatterns, fsVars, uris, travArgs, result,
                   finalContent, clipboard, stripVars, totals, written, handed, runs,
                   walkVars, handlerVars>>

NextWalk ==
    \/ StartWalk
    \/ ExtractSelectionStep
    \/ TraverseStep
    \/ RemoveSelectionStep
    \/ ProcessStep
    \/ ReturnStep
    \/ FinishExtract
    \/ FinishRemove

\* A command is running: the call has been made and has not returned.
Running == pc = "walking"

\* A running command can take a step: one of the loops has an entry left, a
\* call can return, or the command can finish.
RunningCanStep ==
    Running =>
        \/ stack = <<>> /\ cursor <= Len(uris)
        \/ stack = <<>> /\ cursor > Len(uris)
        \/ stack # <<>> /\ stack[Len(stack)].i <= Len(stack[Len(stack)].entries)
        \/ stack # <<>> /\ stack[Len(stack)].i > Len(stack[Len(stack)].entries)

\* A running command runs on: every awaited call settles and the event loop
\* resumes the function.  This is the weak fairness WF_vars(Running /\ NextWalk)
\* of the steps of a running command, with Running, which RunningCanStep
\* shows to be its enabling condition, written in its place.
SpecWalk ==
    InitWalk /\ [][NextWalk]_vars /\ (<>[]Running => []<><<NextWalk>>_vars)

\* A walk that returned without an error left what the whole command leaves.
StepsAgreeWithCalls ==
    (pc = "returned" /\ message \in {"info", "removed", "no comments"}) =>
        /\ walkOp = "extract" =>
              /\ result = extractCode(uris, ignorePatterns).combined
              /\ finalContent = extractCode(uris, ignorePatterns).returned
        /\ walkOp = "remove" =>
              handed = removeComments(uris, ignorePatterns, WalkDisk(fs)).st.handed

\* The Selection entries that contain the directory d.
EntriesContaining(d) ==
    {n \in 1..Len(uris) : uris[n] = d \/ Below(uris[n], d)}

\* The number of calls made on the directory d.
TimesEntered(d) == Cardinality({k \in 1..Len(entered) : entered[k].dir = d})

\* C21: both commands return, whatever stat, readdir, readFile and writeFile
\* failures occur on the way, and up to then every directory has been
\* entered at most once for each Selection entry that is the directory or
\* lies above it, and never for another entry.
C21_WalksReturn ==
    /\ [](\A k \in 1..Len(entered) :
            /\ entered[k].entry \in EntriesContaining(entered[k].dir)
            /\ \A m \in 1..Len(entered) : entered[m] = entered[k] => m = k)
    /\ [](\A d \in Present : TimesEntered(d) <= Cardinality(EntriesContaining(d)))
    /\ (pc = "walking" ~> pc = "returned")

\* The directory a and the directory b inside it are both selected, the
\* listing of b fails: b has been entered once for each entry and the
\* command has returned.
C21_Witness ==
    /\ pc = "returned"
    /\ uris = <<pA, pAB>>
    /\ broken = {pAB}
    /\ TimesEntered(pAB) = 2
    /\ TimesEntered(pA) = 1

-----------------------------------------------------------------------------
(* Specification of handleRemoveComments: the command is invoked with a uri *)
(* and a list of uris, either of which may be missing, and the user answers *)
(* the prompt or dismisses it.                                              *)

\* proceed !== 'No'
ConfirmedUnlessNo(answer) == answer # "No"

\* proceed === 'Yes'
Confirmed(answer) == answer = "Yes"

\* What showWarningMessage can resolve to: a button, or undefined when the
\* prompt is dismissed.
Answers == {"Yes", "No", "undefined"}

\* The arguments of the command: uri is <<>> when missing, uris is not given
\* or is a list.
HandlerArgs ==
    {[uri |-> u, urisGiven |-> g, uris |-> sel] :
        u \in {<<>>, <<pA>>, <<pAE>>},
        g \in BOOLEAN,
        sel \in SeqUpTo(SourceSelectable, MaxSelection)}
    \ {a \in [uri : {<<>>, <<pA>>, <<pAE>>}, urisGiven : {FALSE},
              uris : SeqUpTo(SourceSelectable, MaxSelection)] : a.uris # <<>>}

\* uris after `if (!uris || uris.length === 0) uris = uri ? [uri] : []`
NormalizedUris(args) ==
    IF ~args.urisGiven \/ Len(args.uris) = 0 THEN args.uri ELSE args.uris

InitHandle ==
    /\ pc = "idle"
    /\ paths = <<>>
    /\ basePath = <<>>
    /\ item = NoItem
    /\ ignored = FALSE
    /\ ignorePatterns \in WalkRuleLists
    /\ fs \in SourceTrees
    /\ disk = WalkDisk(fs)
    /\ readdirOrder = <<nE, nDP, nB, nF>>
    /\ broken = {}
    /\ NoExtraction
    /\ NoStrip
    /\ NoRemoval
    /\ NoSteps
    /\ NoPrompt

\* One invocation of the command; a later invocation has the same arguments
\* and a new answer.
HandleRemoveComments ==
    /\ pc \in {"idle", "handleRemoveComments"}
    /\ runs < MaxRuns
    /\ \E args \in (IF pc = "idle" THEN HandlerArgs ELSE {handlerArgs}) :
       \E answer \in Answers :
          /\ handlerArgs' = args
          /\ IF Len(NormalizedUris(args)) = 0
             THEN /\ message' = "warning"
                  /\ proceed' = "none"
                  /\ UNCHANGED <<uris, basePath, disk, removeVars>>
             ELSE /\ proceed' = answer
                  /\ IF Confirmed(answer)
                     THEN \E out \in {removeComments(NormalizedUris(args),
                                                     ignorePatterns, disk)} :
                             /\ uris' = NormalizedUris(args)
                             /\ basePath' = findCommonBasePath(
                                   [k \in 1..Len(NormalizedUris(args)) |->
                                       PathStr(NormalizedUris(args)[k])])
                             /\ disk' = out.st.disk
                             /\ encoder' = out.encoder
                             /\ totals' =
                                   [filesProcessed    |-> out.st.filesProcessed,
                                    charactersRemoved |-> out.st.charactersRemoved,
                                    tokensRemoved     |-> out.st.tokensRemoved]
                             /\ written' = out.st.written
                             /\ handed' = out.st.handed
                             /\ message' = out.message
                             /\ runs' = runs + 1
                     ELSE UNCHANGED <<uris, basePath, disk, removeVars, message>>
    /\ pc' = "handleRemoveComments"
    /\ UNCHANGED <<paths, ignoreVars, ignorePatterns, fs, readdirOrder, broken,
                   travArgs, result, finalContent, clipboard, stripVars, walkVars>>

NextHandle == HandleRemoveComments

SpecHandle == InitHandle /\ [][NextHandle]_vars

\* C27: removeComments is called, and a file is overwritten, only in an
\* invocation of handleRemoveComments whose prompt was answered 'Yes'; an
\* invocation with another answer, with a dismissed prompt or with an empty
\* selection calls nothing and leaves every file and every total as it was.
C27_OnlyAfterYes ==
    [][/\ (runs' # runs \/ disk' # disk \/ written' # written) =>
             (pc' = "handleRemoveComments" /\ proceed' = "Yes")
       /\ (pc' = "handleRemoveComments" /\ proceed' # "Yes") =>
             (runs' = runs /\ disk' = disk /\ written' = written
                /\ encoder' = encoder /\ totals' = totals)]_vars

\* The directory a was selected and the prompt answered 'Yes': e.Js was
\* rewritten; the command was invoked again and the prompt dismissed: one
\* call of removeComments has been made and e.Js is as the call left it.
C27_Witness ==
    /\ pc = "handleRemoveComments"
    /\ proceed = "undefined"
    /\ runs = 1
    /\ uris = <<pA>>
    /\ pAE \in Range(written)
    /\ disk[pAE] = <<"a">>

=============================================================================
